---- MODULE Spec2Model ----
(***************************************************************************)
(* Monthly shift roster engine of reha-shift-proto3.                       *)
(*                                                                         *)
(* The rule engine, the violation reporter and the output assembler are    *)
(* those of src/reha-shift-proto3.py (symbol taxonomy version); the        *)
(* local-search improver (hill climbing) is the one of                     *)
(* src/reha-shift-proto2.py, which tests the raw request symbols: the      *)
(* taxonomy below gives every role its input symbol, and the improver      *)
(* reads the symbol of the requested role.                                 *)
(*                                                                         *)
(* Numbers: work coefficients are kept times 10 (0.5 -> 5), the carried    *)
(* holiday count and the move cost times 2 (0.5 -> 1).  The secondary      *)
(* score, a sum of population standard deviations, is kept as the vector   *)
(* of n*Sum(c^2) - Sum(c)^2 per profession (n weekdays, c the per-weekday  *)
(* head count), whose square root divided by n is the standard deviation;  *)
(* comparisons are done exactly on these integers (real arithmetic, no     *)
(* floating-point rounding).                                               *)
(***************************************************************************)
EXTENDS Integers, Sequences, FiniteSets, TLC

VARIABLES
    staff_df,            \* the staff table: a sequence of staff records
    num_days,            \* calendar.monthrange(year, month)[1]
    first_weekday,       \* calendar.weekday(year, month, 1): 0 = Monday .. 6 = Sunday
    is_saturday_special, \* params['is_saturday_special']
    params,              \* the rule switches
    requests_df,         \* the request table: a sequence of rows
    requests_map,        \* staff id -> day -> role or NoRole
    unit_multiplier_map, \* staff id -> day -> <<coefficient times 10>>, or <<>>
    status,              \* the solver's status
    shifts_values,       \* staff id -> day -> 0 | 1
    i,                   \* passes of the improver done so far
    moves,               \* moves the improver committed so far
    last_improved,       \* improvement_found_in_pass of the last pass
    ret_ok,              \* first component of the returned tuple
    schedule_df,         \* staff id -> day -> output symbol (the grid)
    last_week_holidays,  \* staff id -> tally times 10
    penalty_details,     \* the violation list
    message,             \* "ok" | "fatal" | "none"
    ran,                 \* the components that were executed
    solver_values,       \* the assignment as extracted from the solver
    before_move,         \* the assignment before the last committed move
    log_messages,        \* the committed moves, in order: one entry per move
    summary_df,          \* day -> the row of the daily summary
    event_units,         \* params['event_units']: scope -> day -> units
    random_seed,         \* solver.parameters.random_seed
    run,                 \* 1 for the first call, 2 for a repeated call
    prev,                \* what the first call produced, kept for comparison
    pc

vars == <<staff_df, num_days, first_weekday, is_saturday_special, params,
          requests_df, requests_map, unit_multiplier_map, status,
          shifts_values, i, moves, last_improved, ret_ok, schedule_df,
          last_week_holidays, penalty_details, message, ran, solver_values,
          before_move, log_messages, summary_df, event_units, random_seed, run,
          prev, pc>>

inputs == <<staff_df, num_days, first_weekday, is_saturday_special, params,
            requests_df, event_units>>

(***************************************************************************)
(* Values                                                                  *)
(***************************************************************************)
NoRole == "NoRole"
NoCap  == -1
NoSeed == "NoSeed"
Empty  == <<>>

max_iterations == 100
tri_penalty_weight == 1

Jobs == <<"PT", "OT", "ST">>

\* Input symbols, in ASCII: X = batsu, TRI = sankaku, YU = paid leave,
\* MARU = must work, AMK = morning half holiday.
symbol_settings ==
    [role \in {"HOLIDAY_ABS", "HOLIDAY_WEAK", "HOLIDAY_PAID", "WORK_ABS",
               "HALF_AM", "WORK_DEFAULT", "HOLIDAY_DEFAULT", "WORK_FROM_WEAK"} |->
       CASE role = "HOLIDAY_ABS"     -> [is_holiday |-> TRUE,  strict |-> TRUE,  coef |-> 0,  out |-> "X",    inputs |-> {"X"}]
         [] role = "HOLIDAY_WEAK"    -> [is_holiday |-> TRUE,  strict |-> FALSE, coef |-> 0,  out |-> "TRI",  inputs |-> {"TRI"}]
         [] role = "HOLIDAY_PAID"    -> [is_holiday |-> TRUE,  strict |-> TRUE,  coef |-> 0,  out |-> "YU",   inputs |-> {"YU"}]
         [] role = "WORK_ABS"        -> [is_holiday |-> FALSE, strict |-> TRUE,  coef |-> 10, out |-> "MARU", inputs |-> {"MARU"}]
         [] role = "HALF_AM"         -> [is_holiday |-> TRUE,  strict |-> FALSE, coef |-> 5,  out |-> "AMK",  inputs |-> {"AMK"}]
         [] role = "WORK_DEFAULT"    -> [is_holiday |-> FALSE, strict |-> FALSE, coef |-> 10, out |-> "",     inputs |-> {}]
         [] role = "HOLIDAY_DEFAULT" -> [is_holiday |-> TRUE,  strict |-> FALSE, coef |-> 0,  out |-> "-",    inputs |-> {}]
         [] role = "WORK_FROM_WEAK"  -> [is_holiday |-> FALSE, strict |-> FALSE, coef |-> 10, out |-> "DE",   inputs |-> {}]]

Roles == DOMAIN symbol_settings

\* symbol_to_role_map: the role of an input symbol, NoRole when unmapped.
symbol_to_role_map(symbol) ==
    IF \E role \in Roles : symbol \in symbol_settings[role].inputs
    THEN CHOOSE role \in Roles : symbol \in symbol_settings[role].inputs
    ELSE NoRole

\* The input symbol a requested role was written with (one per role here).
SymbolOf(role) ==
    IF role = NoRole THEN NoRole
    ELSE CHOOSE symbol \in symbol_settings[role].inputs : TRUE

(***************************************************************************)
(* Calendar                                                                *)
(***************************************************************************)
days == 1 .. num_days

weekday(d) == (first_weekday + d - 1) % 7

sundays == {d \in days : weekday(d) = 6}
saturdays == {d \in days : weekday(d) = 5}
special_saturdays == IF is_saturday_special THEN saturdays ELSE {}
weekdays == {d \in days : d \notin sundays /\ d \notin special_saturdays}

\* The test of the day before day 1 against Sunday (weekday 6)
is_cross_month_week_not_sunday == ((first_weekday + 6) % 7) # 6

\* prev_month_date.weekday() != 5, the day before day 1
is_cross_month_week == ((first_weekday + 6) % 7) # 5

\* The week loop that closes a week on a Saturday only
RECURSIVE WeeksFromSaturdaysOnly(_, _, _)
WeeksFromSaturdaysOnly(d, current_week, weeks) ==
    IF d > num_days THEN weeks
    ELSE LET cw == Append(current_week, d) IN
         IF weekday(d) = 5
         THEN WeeksFromSaturdaysOnly(d + 1, <<>>, Append(weeks, cw))
         ELSE WeeksFromSaturdaysOnly(d + 1, cw, weeks)

RECURSIVE WeeksFrom(_, _, _)
WeeksFrom(d, current_week, weeks) ==
    IF d > num_days THEN weeks
    ELSE LET cw == Append(current_week, d) IN
         IF weekday(d) = 5 \/ d = num_days
         THEN WeeksFrom(d + 1, <<>>, Append(weeks, cw))
         ELSE WeeksFrom(d + 1, cw, weeks)

weeks_in_month == WeeksFrom(1, <<>>, <<>>)

SeqToSet(s) == {s[k] : k \in DOMAIN s}

(***************************************************************************)
(* Roster                                                                  *)
(***************************************************************************)
staff == [k \in DOMAIN staff_df |-> staff_df[k].id]
StaffIds == SeqToSet(staff)
staff_info(s) == staff_df[CHOOSE k \in DOMAIN staff_df : staff_df[k].id = s]

\* A sequence restricted to the elements that satisfy a test, order kept.
RECURSIVE SelectIds(_, _)
SelectIds(ids, keep) ==
    IF ids = <<>> THEN <<>>
    ELSE IF Head(ids) \in keep THEN <<Head(ids)>> \o SelectIds(Tail(ids), keep)
         ELSE SelectIds(Tail(ids), keep)

part_time_staff_ids == {s \in StaffIds : staff_info(s).part_time}
managers == {s \in StaffIds : staff_info(s).manager}
job_types(job) == SelectSeq(staff, LAMBDA s : staff_info(s).job = job)
kaifukuki_pt == {s \in StaffIds : staff_info(s).role1 = "kaifukuki" /\ staff_info(s).job = "PT"}
kaifukuki_ot == {s \in StaffIds : staff_info(s).role1 = "kaifukuki" /\ staff_info(s).job = "OT"}

(***************************************************************************)
(* Request resolver                                                        *)
(***************************************************************************)
NoRequests == [s \in StaffIds |-> [d \in days |-> NoRole]]
NoMultipliers == [s \in StaffIds |-> [d \in days |-> <<>>]]

\* The resolver with a default role for a symbol the taxonomy does not map
RECURSIVE ResolveRowsDefaultRole(_, _)
ResolveRowsDefaultRole(rows, maps) ==
    IF rows = <<>> THEN maps
    ELSE LET row == Head(rows)
             role == IF symbol_to_role_map(row.sym) = NoRole THEN "WORK_DEFAULT"
                     ELSE symbol_to_role_map(row.sym)
         IN  IF row.id \notin StaffIds THEN ResolveRowsDefaultRole(Tail(rows), maps)
             ELSE IF row.day \in days
                  THEN ResolveRowsDefaultRole(Tail(rows),
                         [roles |-> [maps.roles EXCEPT ![row.id][row.day] = role],
                          mult  |-> [maps.mult EXCEPT ![row.id][row.day] =
                                        <<symbol_settings[role].coef>>]])
                  ELSE ResolveRowsDefaultRole(Tail(rows), maps)

\* One row of the request table: the staff id and its one filled day column.
RECURSIVE ResolveRows(_, _)
ResolveRows(rows, maps) ==
    IF rows = <<>> THEN maps
    ELSE LET row == Head(rows)
             role == symbol_to_role_map(row.sym)
         IN  IF row.id \notin StaffIds THEN ResolveRows(Tail(rows), maps)
             ELSE IF row.day \in days /\ role # NoRole
                  THEN ResolveRows(Tail(rows),
                         [roles |-> [maps.roles EXCEPT ![row.id][row.day] = role],
                          mult  |-> [maps.mult EXCEPT ![row.id][row.day] =
                                        <<symbol_settings[role].coef>>]])
                  ELSE ResolveRows(Tail(rows), maps)

ResolveRequests(rows) ==
    ResolveRows(rows, [roles |-> NoRequests, mult |-> NoMultipliers])

\* unit_multiplier_map.get(s, {}).get(d, 1.0), times 10
Multiplier(s, d) ==
    IF unit_multiplier_map[s][d] = <<>> THEN 10 ELSE unit_multiplier_map[s][d][1]

\* The carried holiday count of a staff, times 2, as merged into staff_info.
prev_week_holidays(s) == IF is_cross_month_week THEN staff_info(s).prev2 ELSE 0

(***************************************************************************)
(* Rule engine: the hard part of the constraint model                      *)
(***************************************************************************)
Worked(x, members, d) == Cardinality({s \in members : x[s][d] = 1})
OffDays(x, s, ds) == Cardinality({d \in ds : x[s][d] = 0})
RequestedDays(s, roles) == {d \in days : requests_map[s][d] \in roles}

non_countable_holiday_roles == {"HOLIDAY_PAID", "HOLIDAY_SPECIAL", "HOLIDAY_SUMMER"}
half_holiday_roles_h1 ==
    {r \in Roles : symbol_settings[r].is_holiday /\ symbol_settings[r].coef > 0
                   /\ symbol_settings[r].coef < 10}

\* total_holiday_value of H1 for a regular staff
H1Value(x, s) ==
    2 * (OffDays(x, s, days) - Cardinality(RequestedDays(s, non_countable_holiday_roles)))
      + Cardinality(RequestedDays(s, half_holiday_roles_h1))

\* H1 as a hard constraint: the domains of its integer variables
H1Domain(x) ==
    params.h1_on =>
      \A s \in StaffIds \ part_time_staff_ids :
        LET countable == OffDays(x, s, days)
                          - Cardinality(RequestedDays(s, non_countable_holiday_roles))
        IN  /\ countable >= 0 /\ countable <= num_days
            /\ H1Value(x, s) >= 0 /\ H1Value(x, s) <= 2 * num_days

\* The part-time fix with its holiday branch left out
PartTimeFixWorkOnly(x) ==
    params.h2_on =>
      \A s \in part_time_staff_ids : \A d \in days :
        requests_map[s][d] # NoRole =>
          (~ symbol_settings[requests_map[s][d]].is_holiday => x[s][d] = 1)

\* The part-time fix of the strict roles only
PartTimeFixStrictOnly(x) ==
    params.h2_on =>
      \A s \in part_time_staff_ids : \A d \in days :
        (requests_map[s][d] # NoRole /\ symbol_settings[requests_map[s][d]].strict) =>
          IF symbol_settings[requests_map[s][d]].is_holiday
          THEN x[s][d] = 0 ELSE x[s][d] = 1

\* The part-time fix under H2
PartTimeFix(x) ==
    params.h2_on =>
      \A s \in part_time_staff_ids : \A d \in days :
        requests_map[s][d] # NoRole =>
          IF symbol_settings[requests_map[s][d]].is_holiday
          THEN x[s][d] = 0 ELSE x[s][d] = 1

\* The cover demanded only of a roster that has recovery-ward staff
KaifukukiCoverWhenStaffed(x) ==
    (params.s5_on /\ kaifukuki_pt \cup kaifukuki_ot # {}) =>
      \A d \in days : Worked(x, kaifukuki_pt, d) + Worked(x, kaifukuki_ot, d) >= 1

\* The hard half of S5
KaifukukiCover(x) ==
    params.s5_on =>
      \A d \in days : Worked(x, kaifukuki_pt, d) + Worked(x, kaifukuki_ot, d) >= 1

Feasible(x) == H1Domain(x) /\ PartTimeFix(x) /\ KaifukukiCover(x)

Assignments == [StaffIds -> [days -> {0, 1}]]

(***************************************************************************)
(* Local-search improver                                                   *)
(***************************************************************************)
RECURSIVE SumSeq(_)
SumSeq(q) == IF q = <<>> THEN 0 ELSE Head(q) + SumSeq(Tail(q))

\* The weekdays in ascending order
RECURSIVE SortedDays(_)
SortedDays(ds) ==
    IF ds = {} THEN <<>>
    ELSE LET m == CHOOSE d \in ds : \A e \in ds : d <= e
         IN  <<m>> \o SortedDays(ds \ {m})

\* n * Sum(c^2) - Sum(c)^2 of a sequence of counts: n^2 times its variance
VarianceN2(counts) ==
    Len(counts) * SumSeq([k \in DOMAIN counts |-> counts[k] * counts[k]])
      - SumSeq(counts) * SumSeq(counts)

\* The secondary score, one term per profession (its square root over the
\* number of weekdays is np.std of the daily counts); 0 for a profession
\* without members or a month without weekdays.
calculate_internal_penalty_score(x) ==
    [k \in DOMAIN Jobs |->
       LET members == SeqToSet(job_types(Jobs[k]))
           wd == SortedDays(weekdays)
       IN  IF members = {} \/ wd = <<>> THEN 0
           ELSE VarianceN2([n \in DOMAIN wd |-> Worked(x, members, wd[n])])]

\* The commit test with the move cost left out: new_score < current_best_score
ScoreLessWithoutCost(new, best, k, cost2) == new[k] < best[k]

\* new_score + move_cost < current_best_score, for score vectors that
\* differ in at most the term k: sqrt(a)/n + c/2 < sqrt(b)/n, squared twice.
ScoreLess(new, best, k, cost2) ==
    LET n  == Cardinality(weekdays)
        a  == 4 * new[k]
        b  == 4 * best[k]
        kn == cost2 * n
    IN  IF kn = 0 THEN a < b
        ELSE /\ a < b
             /\ a + b - kn * kn > 0
             /\ (a + b - kn * kn) * (a + b - kn * kn) > 4 * a * b

must_work_symbols == {"MARU", "AMK"}
half_day_symbols == {"AMK"}

WeekSet(week) == SeqToSet(week)

HolidayValue(x, s, week) ==
    2 * OffDays(x, s, WeekSet(week))
      + Cardinality({d \in WeekSet(week) :
            SymbolOf(requests_map[s][d]) \in half_day_symbols /\ x[s][d] = 1})

WeekRestOk(x, s, w) ==
    LET week == weeks_in_month[w]
        value == HolidayValue(x, s, week)
    IN  IF is_cross_month_week /\ week = weeks_in_month[1]
        THEN value + prev_week_holidays(s) >= 3
        ELSE /\ (Len(week) = 7 => value >= 3)
             /\ (Len(week) < 7 => value >= 1)

max_consecutive_days == 5

NoSixRun(x, s) ==
    \A d \in 1 .. num_days :
      d + max_consecutive_days <= num_days =>
        Cardinality({k \in 0 .. max_consecutive_days : x[s][d + k] = 1})
          <= max_consecutive_days

\* is_move_valid without its recovery-ward coverage tests
is_move_valid_no_kaifukuki(temp, s, max_day, min_day) ==
    /\ ~ staff_info(s).part_time
    /\ (staff_info(s).manager => Worked(temp, managers, max_day) >= 1)
    /\ \A w \in DOMAIN weeks_in_month :
         (max_day \in WeekSet(weeks_in_month[w]) \/ min_day \in WeekSet(weeks_in_month[w]))
           => WeekRestOk(temp, s, w)
    /\ NoSixRun(temp, s)

\* is_move_valid without its test of the employment kind
is_move_valid_part_time_too(temp, s, max_day, min_day) ==
    /\ (staff_info(s).manager => Worked(temp, managers, max_day) >= 1)
    /\ (staff_info(s).role1 = "kaifukuki" /\ staff_info(s).job = "PT"
          => Worked(temp, kaifukuki_pt, max_day) >= 1)
    /\ (staff_info(s).role1 = "kaifukuki" /\ staff_info(s).job = "OT"
          => Worked(temp, kaifukuki_ot, max_day) >= 1)
    /\ \A w \in DOMAIN weeks_in_month :
         (max_day \in WeekSet(weeks_in_month[w]) \/ min_day \in WeekSet(weeks_in_month[w]))
           => WeekRestOk(temp, s, w)
    /\ NoSixRun(temp, s)

\* is_move_valid without its test of the managers left on max_day
is_move_valid_no_manager(temp, s, max_day, min_day) ==
    /\ ~ staff_info(s).part_time
    /\ (staff_info(s).role1 = "kaifukuki" /\ staff_info(s).job = "PT"
          => Worked(temp, kaifukuki_pt, max_day) >= 1)
    /\ (staff_info(s).role1 = "kaifukuki" /\ staff_info(s).job = "OT"
          => Worked(temp, kaifukuki_ot, max_day) >= 1)
    /\ \A w \in DOMAIN weeks_in_month :
         (max_day \in WeekSet(weeks_in_month[w]) \/ min_day \in WeekSet(weeks_in_month[w]))
           => WeekRestOk(temp, s, w)
    /\ NoSixRun(temp, s)

\* is_move_valid without its weekly-rest test
is_move_valid_no_week_rest(temp, s, max_day, min_day) ==
    /\ ~ staff_info(s).part_time
    /\ (staff_info(s).manager => Worked(temp, managers, max_day) >= 1)
    /\ (staff_info(s).role1 = "kaifukuki" /\ staff_info(s).job = "PT"
          => Worked(temp, kaifukuki_pt, max_day) >= 1)
    /\ (staff_info(s).role1 = "kaifukuki" /\ staff_info(s).job = "OT"
          => Worked(temp, kaifukuki_ot, max_day) >= 1)
    /\ NoSixRun(temp, s)

\* is_move_valid without its test of consecutive working days
is_move_valid_no_six_run(temp, s, max_day, min_day) ==
    /\ ~ staff_info(s).part_time
    /\ (staff_info(s).manager => Worked(temp, managers, max_day) >= 1)
    /\ (staff_info(s).role1 = "kaifukuki" /\ staff_info(s).job = "PT"
          => Worked(temp, kaifukuki_pt, max_day) >= 1)
    /\ (staff_info(s).role1 = "kaifukuki" /\ staff_info(s).job = "OT"
          => Worked(temp, kaifukuki_ot, max_day) >= 1)
    /\ \A w \in DOMAIN weeks_in_month :
         (max_day \in WeekSet(weeks_in_month[w]) \/ min_day \in WeekSet(weeks_in_month[w]))
           => WeekRestOk(temp, s, w)

is_move_valid(temp, s, max_day, min_day) ==
    /\ ~ staff_info(s).part_time
    /\ (staff_info(s).manager => Worked(temp, managers, max_day) >= 1)
    /\ (staff_info(s).role1 = "kaifukuki" /\ staff_info(s).job = "PT"
          => Worked(temp, kaifukuki_pt, max_day) >= 1)
    /\ (staff_info(s).role1 = "kaifukuki" /\ staff_info(s).job = "OT"
          => Worked(temp, kaifukuki_ot, max_day) >= 1)
    /\ \A w \in DOMAIN weeks_in_month :
         (max_day \in WeekSet(weeks_in_month[w]) \/ min_day \in WeekSet(weeks_in_month[w]))
           => WeekRestOk(temp, s, w)
    /\ NoSixRun(temp, s)

week_weekdays(w) == SelectIds(weeks_in_month[w], weekdays)

\* max(daily_counts, key=...) and min(...): the first day with the extreme count
max_day_of(x, members, wds) ==
    wds[CHOOSE k \in DOMAIN wds :
          /\ \A m \in DOMAIN wds : Worked(x, members, wds[m]) <= Worked(x, members, wds[k])
          /\ \A m \in 1 .. (k - 1) : Worked(x, members, wds[m]) < Worked(x, members, wds[k])]

min_day_of(x, members, wds) ==
    wds[CHOOSE k \in DOMAIN wds :
          /\ \A m \in DOMAIN wds : Worked(x, members, wds[m]) >= Worked(x, members, wds[k])
          /\ \A m \in 1 .. (k - 1) : Worked(x, members, wds[m]) > Worked(x, members, wds[k])]

\* The swap that assigns min_day and leaves max_day assigned
SwapKeepMax(x, s, max_day, min_day) ==
    [x EXCEPT ![s] = [@ EXCEPT ![min_day] = 1]]

Swap(x, s, max_day, min_day) ==
    [x EXCEPT ![s] = [@ EXCEPT ![max_day] = 0, ![min_day] = 1]]

\* params.get('tri_penalty_weight', 0.5), times 2
tri_weight ==
    IF "tri_penalty_weight" \in DOMAIN params THEN params.tri_penalty_weight
    ELSE tri_penalty_weight

move_cost(s, min_day) ==
    IF SymbolOf(requests_map[s][min_day]) = "TRI" THEN tri_weight ELSE 0

\* The test of one member without the tests of its requests on min_day and
\* on max_day
MoveCommitsAnyRequest(x, s, max_day, min_day, k, current_best_score) ==
    /\ x[s][max_day] = 1
    /\ x[s][min_day] = 0
    /\ is_move_valid(Swap(x, s, max_day, min_day), s, max_day, min_day)
    /\ ScoreLess(calculate_internal_penalty_score(Swap(x, s, max_day, min_day)),
                 current_best_score, k, move_cost(s, min_day))

\* The test of one member in the member loop: the staff works on max_day,
\* is off on min_day, its requests allow the move, the move is valid and
\* new_score + move_cost < current_best_score.
MoveCommits(x, s, max_day, min_day, k, current_best_score) ==
    /\ x[s][max_day] = 1
    /\ x[s][min_day] = 0
    /\ SymbolOf(requests_map[s][min_day]) \in {NoRole, "TRI"}
    /\ SymbolOf(requests_map[s][max_day]) \notin must_work_symbols
    /\ is_move_valid(Swap(x, s, max_day, min_day), s, max_day, min_day)
    /\ ScoreLess(calculate_internal_penalty_score(Swap(x, s, max_day, min_day)),
                 current_best_score, k, move_cost(s, min_day))

\* The member loop over a shuffled list (random.shuffle of the candidates):
\* the last member that passes when the random state is odd.
PairMoveShuffled(x, w, k) ==
    LET wds     == week_weekdays(w)
        members == job_types(Jobs[k])
        mset    == SeqToSet(members)
    IN  IF Len(wds) < 2 \/ members = <<>> THEN <<>>
        ELSE LET max_day == max_day_of(x, mset, wds)
                 min_day == min_day_of(x, mset, wds)
                 best    == calculate_internal_penalty_score(x)
                 hits    == {m \in DOMAIN members :
                               MoveCommits(x, members[m], max_day, min_day, k, best)}
                 pick    == IF random_seed % 2 = 1
                            THEN CHOOSE m \in hits : \A n \in hits : m >= n
                            ELSE CHOOSE m \in hits : \A n \in hits : m <= n
             IN  IF Worked(x, mset, max_day) <= Worked(x, mset, min_day) + 1 THEN <<>>
                 ELSE IF hits = {} THEN <<>>
                 ELSE <<Swap(x, members[pick], max_day, min_day)>>

\* Week w and profession k of one pass: <<>> when the loops go on to the
\* next profession, else the assignment with the move of the first member
\* that passes.
PairMove(x, w, k) ==
    LET wds     == week_weekdays(w)
        members == job_types(Jobs[k])
        mset    == SeqToSet(members)
    IN  IF Len(wds) < 2 \/ members = <<>> THEN <<>>
        ELSE LET max_day == max_day_of(x, mset, wds)
                 min_day == min_day_of(x, mset, wds)
                 best    == calculate_internal_penalty_score(x)
                 hits    == {m \in DOMAIN members :
                               MoveCommits(x, members[m], max_day, min_day, k, best)}
                 pick    == CHOOSE m \in hits : \A n \in hits : m <= n
             IN  IF Worked(x, mset, max_day) <= Worked(x, mset, min_day) + 1 THEN <<>>
                 ELSE IF hits = {} THEN <<>>
                 ELSE <<Swap(x, members[pick], max_day, min_day)>>

\* The week loop and the profession loop of one pass, from the n-th pair
\* (week, profession) on, as far as the first committed move.
RECURSIVE FirstCommit(_, _)
FirstCommit(x, n) ==
    IF n > Len(weeks_in_month) * Len(Jobs) THEN <<>>
    ELSE LET move == PairMove(x, ((n - 1) \div Len(Jobs)) + 1, ((n - 1) % Len(Jobs)) + 1)
         IN  IF move # <<>> THEN move ELSE FirstCommit(x, n + 1)

\* One pass of the outer loop: the first move in week, profession, member
\* order that is committed, if any.
improve_pass(x) ==
    LET move == FirstCommit(x, 1)
    IN  IF move = <<>> THEN [found |-> FALSE, x |-> x]
        ELSE [found |-> TRUE, x |-> move[1]]

\* What log_messages.append records of a committed move: the cells the
\* move changed, each with its new value (the staff, max_day to off,
\* min_day to work).
LogEntry(x, y) ==
    {<<c[1], c[2], y[c[1]][c[2]]>> :
       c \in {e \in StaffIds \X days : x[e[1]][e[2]] # y[e[1]][e[2]]}}

(***************************************************************************)
(* Violation reporter                                                      *)
(***************************************************************************)
RECURSIVE Flatten(_)
Flatten(qq) == IF qq = <<>> THEN <<>> ELSE Head(qq) \o Flatten(Tail(qq))

Rec(rule, s, d) == [rule |-> rule, staff |-> s, day |-> d]

full_holiday_roles ==
    {r \in Roles : symbol_settings[r].is_holiday /\ symbol_settings[r].coef = 0}
half_holiday_roles ==
    {r \in Roles : symbol_settings[r].is_holiday /\ symbol_settings[r].coef > 0}
absolute_roles == {r \in Roles : symbol_settings[r].strict}

(***************************************************************************)
(* Rule engine: the penalty terms of the objective.  Each operator is the  *)
(* coefficient of one rule in sum(penalties) for an assignment x, with the *)
(* auxiliary variables at the values the constraints force (an absolute    *)
(* value, an indicator) or, for a variable bounded from below only, at its *)
(* least value.  Rationals are kept as numerator and denominator.          *)
(***************************************************************************)
Abs(n) == IF n < 0 THEN 0 - n ELSE n
Max0(n) == IF n < 0 THEN 0 ELSE n

\* H1: h1_penalty * abs_deviation, over the regular staff
H1Terms(x) ==
    IF ~ params.h1_on THEN 0
    ELSE SumSeq([k \in DOMAIN staff |->
           IF staff[k] \in part_time_staff_ids THEN 0
           ELSE params.h1_penalty * Abs(H1Value(x, staff[k]) - 18)])

\* H2: the strict requests of the regular staff
H2Terms(x) ==
    IF ~ params.h2_on THEN 0
    ELSE SumSeq([k \in DOMAIN staff |->
           IF staff[k] \in part_time_staff_ids THEN 0
           ELSE params.h2_penalty * Cardinality({d \in days :
                  LET role == requests_map[staff[k]][d]
                  IN  /\ role \in absolute_roles
                      /\ IF symbol_settings[role].is_holiday
                         THEN x[staff[k]][d] = 1 ELSE x[staff[k]][d] = 0})])

\* H3: h3_penalty * no_manager per day
H3Terms(x) ==
    IF ~ params.h3_on THEN 0
    ELSE params.h3_penalty * Cardinality({d \in days : Worked(x, managers, d) = 0})

SundaysWorked(x, s) == Cardinality({d \in sundays : x[s][d] = 1})

\* H5: the Sunday cap of a regular staff, under the H5 switch
H5Terms(x) ==
    IF ~ params.h5_on THEN 0
    ELSE SumSeq([k \in DOMAIN staff |->
           IF staff[k] \in part_time_staff_ids \/ staff_info(staff[k]).sunday_cap = NoCap
           THEN 0
           ELSE params.h5_penalty
                  * Max0(SundaysWorked(x, staff[k]) - staff_info(staff[k]).sunday_cap)])

WeekendWorked(x, s) == Cardinality({d \in sundays \cup special_saturdays : x[s][d] = 1})
SaturdaysWorked(x, s) == Cardinality({d \in special_saturdays : x[s][d] = 1})

\* The weekend caps, without a switch: the cap on Sundays and special
\* Saturdays together when it is set, else the Sunday cap and, in a month
\* with special Saturdays, the Saturday cap
WeekendCapTerms(x) ==
    SumSeq([k \in DOMAIN staff |->
      LET s == staff[k] IN
      IF s \in part_time_staff_ids THEN 0
      ELSE IF staff_info(s).weekend_cap # NoCap
      THEN params.h_weekend_limit_penalty
             * Max0(WeekendWorked(x, s) - staff_info(s).weekend_cap)
      ELSE (IF staff_info(s).sunday_cap # NoCap
            THEN params.h_weekend_limit_penalty
                   * Max0(SundaysWorked(x, s) - staff_info(s).sunday_cap)
            ELSE 0)
           + (IF staff_info(s).saturday_cap # NoCap /\ special_saturdays # {}
              THEN params.h_weekend_limit_penalty
                     * Max0(SaturdaysWorked(x, s) - staff_info(s).saturday_cap)
              ELSE 0)])

\* The constant weight 50 past two Sundays, for a Sunday cap of 3 or more
SundayOverworkTerms(x) ==
    SumSeq([k \in DOMAIN staff |->
      IF staff[k] \in part_time_staff_ids \/ staff_info(staff[k]).sunday_cap = NoCap
      THEN 0
      ELSE IF staff_info(staff[k]).sunday_cap >= 3
           THEN 50 * Max0(SundaysWorked(x, staff[k]) - 2) ELSE 0])

WeekendLimitTerms(x) == WeekendCapTerms(x) + SundayOverworkTerms(x)

weak_holiday_roles ==
    {r \in Roles : symbol_settings[r].is_holiday /\ ~ symbol_settings[r].strict}

\* S4: a worked day of a weak-holiday request, of any staff
S4Terms(x) ==
    IF ~ params.s4_on THEN 0
    ELSE params.s4_penalty
           * Cardinality({c \in StaffIds \X days :
                 requests_map[c[1]][c[2]] \in weak_holiday_roles /\ x[c[1]][c[2]] = 1})

\* total_holiday_value of a week in the constraint model
WeekValue(x, s, week) ==
    2 * OffDays(x, s, WeekSet(week))
      + Cardinality({d \in WeekSet(week) :
            requests_map[s][d] \in half_holiday_roles /\ x[s][d] = 1})

\* The weekly-rest term with the threshold and the weight of the first week
\* taken from its length, the carried holidays added
WeeklyRestTermByLength(x, s, w) ==
    LET week == weeks_in_month[w]
        value == WeekValue(x, s, week)
                   + (IF is_cross_month_week /\ w = 1 THEN prev_week_holidays(s) ELSE 0)
    IN  IF ~ (params.s0_on \/ params.s2_on) THEN 0
        ELSE IF Cardinality({d \in WeekSet(week) :
                    requests_map[s][d] \in full_holiday_roles}) >= 3 THEN 0
        ELSE IF Len(week) = 7 /\ params.s0_on
             THEN (IF value < 3 THEN params.s0_penalty ELSE 0)
        ELSE IF Len(week) < 7 /\ params.s2_on
             THEN (IF value < 1 THEN params.s2_penalty ELSE 0)
        ELSE 0

\* S0 and S2: the term of one regular staff and one week
WeeklyRestTerm(x, s, w) ==
    LET week == weeks_in_month[w]
        value == WeekValue(x, s, week)
    IN  IF ~ (params.s0_on \/ params.s2_on) THEN 0
        ELSE IF Cardinality({d \in WeekSet(week) :
                    requests_map[s][d] \in full_holiday_roles}) >= 3 THEN 0
        ELSE IF is_cross_month_week /\ w = 1
             THEN (IF value + prev_week_holidays(s) < 3 THEN params.s0_penalty ELSE 0)
        ELSE IF Len(week) = 7 /\ params.s0_on
             THEN (IF value < 3 THEN params.s0_penalty ELSE 0)
        ELSE IF Len(week) < 7 /\ params.s2_on
             THEN (IF value < 1 THEN params.s2_penalty ELSE 0)
        ELSE 0

WeeklyRestTerms(x) ==
    SumSeq([k \in DOMAIN staff |->
      IF staff[k] \in part_time_staff_ids THEN 0
      ELSE SumSeq([w \in DOMAIN weeks_in_month |-> WeeklyRestTerm(x, staff[k], w)])])

\* S1: the head-count targets of one special day
S1Term(x, day_type, d) ==
    LET target == params.targets[day_type]
        pt_on_day == Worked(x, SeqToSet(job_types("PT")), d)
        ot_on_day == Worked(x, SeqToSet(job_types("OT")), d)
        st_on_day == Worked(x, SeqToSet(job_types("ST")), d)
    IN  (IF params.s1a_on
         THEN params.s1a_penalty * Abs(pt_on_day + ot_on_day - (target.pt + target.ot))
         ELSE 0)
        + (IF params.s1b_on
           THEN params.s1b_penalty
                  * (Max0(Abs(pt_on_day - target.pt) - params.tolerance)
                     + Max0(Abs(ot_on_day - target.ot) - params.tolerance))
           ELSE 0)
        + (IF params.s1c_on
           THEN params.s1c_penalty * Abs(st_on_day - target.st) ELSE 0)

S1Terms(x) ==
    LET sun == SortedDays(sundays)
        sat == SortedDays(special_saturdays)
    IN  SumSeq([n \in DOMAIN sun |-> S1Term(x, "sun", sun[n])])
          + SumSeq([n \in DOMAIN sat |-> S1Term(x, "sat", sat[n])])

gairai_staff == {s \in StaffIds : staff_info(s).role1 = "gairai"}

\* S3: the outpatient staff off on a day, past the first
S3Terms(x) ==
    IF ~ params.s3_on THEN 0
    ELSE params.s3_penalty
           * SumSeq([d \in days |->
               Max0(Cardinality({s \in gairai_staff : x[s][d] = 0}) - 1)])

\* S5: the soft half, one term per day and profession
S5Terms(x) ==
    IF ~ params.s5_on THEN 0
    ELSE params.s5_penalty
           * (Cardinality({d \in days : Worked(x, kaifukuki_pt, d) = 0})
              + Cardinality({d \in days : Worked(x, kaifukuki_ot, d) = 0}))

\* round() of the rational p / q, q > 0: to the nearest integer, a tie to
\* the even one.
Round(p, q) ==
    LET lo == p \div q
        r2 == 2 * (p % q)
    IN  IF r2 < q THEN lo
        ELSE IF r2 > q THEN lo + 1
        ELSE IF lo % 2 = 0 THEN lo ELSE lo + 1

holiday_roles == {r \in Roles : symbol_settings[r].is_holiday}

\* total_weekday_units_by_job[job], times len(weekdays)
TotalUnitsN(job) ==
    LET members == job_types(job)
    IN  SumSeq([k \in DOMAIN members |->
          staff_info(members[k]).units
            * (Cardinality(weekdays)
               - Cardinality({d \in weekdays :
                     requests_map[members[k]][d] \in holiday_roles}))])

AllUnitsN == TotalUnitsN("PT") + TotalUnitsN("OT") + TotalUnitsN("ST")

EventScope(job) == CASE job = "PT" -> "pt" [] job = "OT" -> "ot" [] job = "ST" -> "st"

EventTotal(scope) == SumSeq([d \in days |-> event_units[scope][d]])

\* round(avg_residual_units) of a profession with members
RoundedAvgResidual(job) ==
    LET n == Cardinality(weekdays)
    IN  IF AllUnitsN > 0
        THEN Round(TotalUnitsN(job) * AllUnitsN
                     - EventTotal(EventScope(job)) * n * AllUnitsN
                     - EventTotal("all") * TotalUnitsN(job) * n,
                   n * n * AllUnitsN)
        ELSE Round(TotalUnitsN(job) - EventTotal(EventScope(job)) * n, n * n)

\* round(event_unit_for_day)
RoundedEventUnits(job, d) ==
    IF AllUnitsN > 0
    THEN Round(event_units[EventScope(job)][d] * AllUnitsN
                 + event_units["all"][d] * TotalUnitsN(job), AllUnitsN)
    ELSE event_units[EventScope(job)][d]

\* S6: abs_diff_expr of one profession and one weekday
S6Deviation(x, job, d) ==
    LET members == job_types(job)
        provided == SumSeq([k \in DOMAIN members |->
                      x[members[k]][d]
                        * ((staff_info(members[k]).units * Multiplier(members[k], d)) \div 10)])
    IN  Abs(provided - RoundedEventUnits(job, d) - RoundedAvgResidual(job))

S6Terms(x) ==
    IF ~ params.s6_on THEN 0
    ELSE LET wd == SortedDays(weekdays)
         IN  (IF params.high_flat_penalty THEN params.s6_penalty_heavy ELSE params.s6_penalty)
               * SumSeq([k \in DOMAIN Jobs |->
                   IF job_types(Jobs[k]) = <<>> THEN 0
                   ELSE SumSeq([n \in DOMAIN wd |-> S6Deviation(x, Jobs[k], wd[n])])])

\* S7: is_over of one window, over the regular staff
S7Terms(x) ==
    IF ~ params.s7_on THEN 0
    ELSE params.s7_penalty
           * Cardinality({c \in (StaffIds \ part_time_staff_ids) \X days :
                 /\ c[2] + max_consecutive_days <= num_days
                 /\ \A n \in 0 .. max_consecutive_days : x[c[1]][c[2] + n] = 1})

\* The penalty list of the constraint model, summed per rule
penalties(x) ==
    [H1 |-> H1Terms(x), H2 |-> H2Terms(x), H3 |-> H3Terms(x),
     H5 |-> H5Terms(x) + WeekendLimitTerms(x), S4 |-> S4Terms(x),
     S0 |-> WeeklyRestTerms(x), S1 |-> S1Terms(x), S3 |-> S3Terms(x),
     S5 |-> S5Terms(x), S6 |-> S6Terms(x), S7 |-> S7Terms(x)]

\* total_holiday_value as the reporter computes it for H1
ReportH1Value(x, s) ==
    2 * (OffDays(x, s, days) - Cardinality(RequestedDays(s, full_holiday_roles)))
      + Cardinality(RequestedDays(s, half_holiday_roles))

ReportH1(x) ==
    IF ~ params.h1_on THEN <<>>
    ELSE Flatten([k \in DOMAIN staff |->
           IF staff[k] \notin part_time_staff_ids /\ ReportH1Value(x, staff[k]) # 18
           THEN <<Rec("H1", staff[k], 0)>> ELSE <<>>])

ReportH2(x) ==
    IF ~ params.h2_on THEN <<>>
    ELSE Flatten([k \in DOMAIN staff |->
           Flatten([d \in days |->
             LET role == requests_map[staff[k]][d]
             IN  IF role \in absolute_roles
                    /\ \/ symbol_settings[role].is_holiday /\ x[staff[k]][d] = 1
                       \/ ~ symbol_settings[role].is_holiday /\ x[staff[k]][d] = 0
                 THEN <<Rec("H2", staff[k], d)>> ELSE <<>>])])

ReportH3(x) ==
    IF ~ params.h3_on THEN <<>>
    ELSE Flatten([d \in days |->
           IF Worked(x, managers, d) = 0 THEN <<Rec("H3", "-", d)>> ELSE <<>>])

ReportH5(x) ==
    IF ~ params.h5_on THEN <<>>
    ELSE Flatten([k \in DOMAIN staff |->
           IF /\ staff[k] \notin part_time_staff_ids
              /\ staff_info(staff[k]).sunday_cap # NoCap
              /\ Cardinality({d \in sundays : x[staff[k]][d] = 1})
                   > staff_info(staff[k]).sunday_cap
           THEN <<Rec("H5", staff[k], 0)>> ELSE <<>>])

ReportWeekValue(x, s, week) ==
    2 * OffDays(x, s, WeekSet(week))
      + Cardinality({d \in WeekSet(week) :
            requests_map[s][d] \in half_holiday_roles /\ x[s][d] = 1})

ReportS0(x) ==
    IF ~ (params.s0_on \/ params.s2_on) THEN <<>>
    ELSE Flatten([k \in DOMAIN staff |->
           IF staff[k] \in part_time_staff_ids THEN <<>>
           ELSE Flatten([w \in DOMAIN weeks_in_month |->
                  LET week == weeks_in_month[w]
                      value == ReportWeekValue(x, staff[k], week)
                  IN  IF is_cross_month_week /\ w = 1
                      THEN IF value + prev_week_holidays(staff[k]) < 3
                           THEN <<Rec("S0_cross_month", staff[k], 0)>> ELSE <<>>
                      ELSE IF Len(week) = 7 /\ params.s0_on /\ value < 3
                           THEN <<Rec("S0_full_week", staff[k], 0)>> ELSE <<>>])])

ReportS7(x) ==
    IF ~ params.s7_on THEN <<>>
    ELSE Flatten([k \in DOMAIN staff |->
           IF staff[k] \in part_time_staff_ids THEN <<>>
           ELSE Flatten([d \in 1 .. num_days |->
                  IF /\ d + max_consecutive_days <= num_days
                     /\ \A n \in 0 .. max_consecutive_days : x[staff[k]][d + n] = 1
                  THEN <<Rec("S7", staff[k], d)>> ELSE <<>>])])

ReportS5(x) ==
    IF ~ params.s5_on THEN <<>>
    ELSE Flatten([d \in days |->
           (IF Worked(x, kaifukuki_pt, d) = 0 THEN <<Rec("S5_PT", "-", d)>> ELSE <<>>)
           \o (IF Worked(x, kaifukuki_ot, d) = 0 THEN <<Rec("S5_OT", "-", d)>> ELSE <<>>)])

report_penalty_details(x) ==
    ReportH1(x) \o ReportH2(x) \o ReportH3(x) \o ReportH5(x)
      \o ReportS0(x) \o ReportS7(x) \o ReportS5(x)

(***************************************************************************)
(* Output assembler                                                        *)
(***************************************************************************)
sym_work_def == symbol_settings["WORK_DEFAULT"].out
sym_holi_def == symbol_settings["HOLIDAY_DEFAULT"].out
sym_work_from_weak == symbol_settings["WORK_FROM_WEAK"].out

\* The cell symbol without the special case of a worked weak holiday
OutputSymbolOwn(working, request_role) ==
    IF working
    THEN IF request_role # NoRole THEN symbol_settings[request_role].out
         ELSE sym_work_def
    ELSE IF request_role # NoRole THEN symbol_settings[request_role].out
         ELSE sym_holi_def

OutputSymbol(working, request_role) ==
    IF working
    THEN IF request_role # NoRole
         THEN IF request_role = "HOLIDAY_WEAK" THEN sym_work_from_weak
              ELSE symbol_settings[request_role].out
         ELSE sym_work_def
    ELSE IF request_role # NoRole THEN symbol_settings[request_role].out
         ELSE sym_holi_def

create_schedule_df(x) ==
    [s \in StaffIds |-> [d \in days |-> OutputSymbol(x[s][d] = 1, requests_map[s][d])]]

\* The last week counted from its Monday
start_of_last_week_from_monday == num_days - weekday(num_days)

start_of_last_week == num_days - ((weekday(num_days) + 1) % 7)
final_week_days == {d \in days : d >= start_of_last_week}

\* The tally of one day, times 10
LastWeekTally(x, s, d) ==
    IF x[s][d] # 1 THEN 10
    ELSE IF requests_map[s][d] # NoRole
            /\ symbol_settings[requests_map[s][d]].is_holiday
            /\ symbol_settings[requests_map[s][d]].coef > 0
         THEN 10 - symbol_settings[requests_map[s][d]].coef
         ELSE 0

create_last_week_holidays(x) ==
    [s \in StaffIds |->
       LET ds == SortedDays(final_week_days)
       IN  SumSeq([n \in DOMAIN ds |-> LastWeekTally(x, s, ds[n])])]

\* _create_summary: the row of one day.  Head counts are kept times 2,
\* the total of the work coefficients and the unit sums times 10; "-" on
\* Sundays for the unit columns.
work_symbols == {symbol_settings[r].out : r \in {q \in Roles : symbol_settings[q].coef > 0}}

create_summary_row(grid, d) ==
    LET work_staff_ids == SelectIds(staff, {s \in StaffIds : grid[s][d] \in work_symbols})
        half == {s \in SeqToSet(work_staff_ids) : Multiplier(s, d) > 0 /\ Multiplier(s, d) < 10}
        Head2(s) == IF s \in half THEN 1 ELSE 2
        CountOf(keep) ==
            LET ids == SelectIds(work_staff_ids, keep)
            IN  SumSeq([n \in DOMAIN ids |-> Head2(ids[n])])
        UnitsOf(job) ==
            LET ids == SelectIds(work_staff_ids, {s \in StaffIds : staff_info(s).job = job})
            IN  SumSeq([n \in DOMAIN ids |-> staff_info(ids[n]).units * Multiplier(ids[n], d)])
    IN  [day       |-> d,
         weekday   |-> weekday(d),
         total     |-> SumSeq([n \in DOMAIN work_staff_ids |->
                                 Multiplier(work_staff_ids[n], d)]),
         PT        |-> CountOf({s \in StaffIds : staff_info(s).job = "PT"}),
         OT        |-> CountOf({s \in StaffIds : staff_info(s).job = "OT"}),
         ST        |-> CountOf({s \in StaffIds : staff_info(s).job = "ST"}),
         managers  |-> CountOf(managers),
         kaifukuki |-> CountOf({s \in StaffIds : staff_info(s).role1 = "kaifukuki"}),
         pt_units  |-> IF weekday(d) # 6 THEN <<UnitsOf("PT")>> ELSE "-",
         ot_units  |-> IF weekday(d) # 6 THEN <<UnitsOf("OT")>> ELSE "-",
         st_units  |-> IF weekday(d) # 6 THEN <<UnitsOf("ST")>> ELSE "-",
         event     |-> IF weekday(d) # 6
                       THEN <<event_units["all"][d] + event_units["pt"][d]
                                + event_units["ot"][d] + event_units["st"][d]>>
                       ELSE "-"]

create_summary(grid) == [d \in days |-> create_summary_row(grid, d)]

(***************************************************************************)
(* Inputs of the bounded model                                             *)
(***************************************************************************)
MonthDays == 3

Member(id, job, part_time, manager, role1) ==
    [id |-> id, job |-> job, part_time |-> part_time, manager |-> manager,
     role1 |-> role1, sunday_cap |-> NoCap, saturday_cap |-> NoCap,
     weekend_cap |-> NoCap, prev2 |-> 0, units |-> 18]

Roster1 ==
    <<Member("s1", "PT", FALSE, FALSE, "kaifukuki"),
      Member("s2", "PT", FALSE, FALSE, "none"),
      Member("s3", "OT", TRUE,  FALSE, "kaifukuki")>>

Rosters == {Roster1}

\* first weekday of the month and the Saturday switch
Calendars == {<<0, FALSE>>, <<6, FALSE>>}

\* Every rule switched on, with the weights, the tolerance and the targets
\* the input form starts with
AllOn == [h1_on |-> TRUE, h2_on |-> TRUE, h3_on |-> TRUE, h5_on |-> TRUE,
          s0_on |-> TRUE, s2_on |-> TRUE, s5_on |-> TRUE, s7_on |-> TRUE,
          s1a_on |-> TRUE, s1b_on |-> TRUE, s1c_on |-> TRUE, s3_on |-> TRUE,
          s4_on |-> TRUE, s6_on |-> TRUE, high_flat_penalty |-> FALSE,
          h1_penalty |-> 1000, h2_penalty |-> 1000, h3_penalty |-> 1000,
          h5_penalty |-> 1000, h_weekend_limit_penalty |-> 1000,
          s0_penalty |-> 200, s2_penalty |-> 25, s3_penalty |-> 10,
          s4_penalty |-> 8, s5_penalty |-> 5, s6_penalty |-> 2,
          s6_penalty_heavy |-> 4, s7_penalty |-> 50, s1a_penalty |-> 50,
          s1b_penalty |-> 40, s1c_penalty |-> 60, tolerance |-> 1,
          targets |-> [sun |-> [pt |-> 10, ot |-> 5, st |-> 3],
                       sat |-> [pt |-> 4, ot |-> 2, st |-> 1]]]

RuleConfigs == {AllOn, [AllOn EXCEPT !.h2_on = FALSE, !.s5_on = FALSE]}

Row(id, day, sym) == [id |-> id, day |-> day, sym |-> sym]

\* No request; one request cell of a regular or part-time staff; a table
\* with a cell that counts, a row of a staff id that is not in the roster
\* and a cell with an unmapped symbol.
RequestTables ==
    {<<>>,
     <<Row("s3", 1, "X")>>, <<Row("s3", 2, "MARU")>>, <<Row("s3", 1, "TRI")>>,
     <<Row("s2", 2, "TRI")>>, <<Row("s2", 1, "AMK")>>, <<Row("s2", 1, "YU")>>,
     <<Row("s2", 2, "X"), Row("s9", 2, "MARU"), Row("s3", 3, "??")>>}

TypeOK ==
    /\ pc \in {"resolve", "solve", "improve", "report", "assemble", "done"}
    /\ i \in 0 .. max_iterations
    /\ moves \in 0 .. max_iterations
    /\ status \in {"none", "OPTIMAL", "FEASIBLE", "INFEASIBLE", "UNKNOWN"}

(***************************************************************************)
(* The solve, step by step                                                 *)
(***************************************************************************)
Blank ==
    /\ requests_map = Empty
    /\ unit_multiplier_map = Empty
    /\ status = "none"
    /\ shifts_values = Empty
    /\ solver_values = Empty
    /\ before_move = Empty
    /\ log_messages = <<>>
    /\ i = 0
    /\ moves = 0
    /\ last_improved = FALSE
    /\ ret_ok = FALSE
    /\ schedule_df = Empty
    /\ summary_df = Empty
    /\ last_week_holidays = Empty
    /\ penalty_details = <<>>
    /\ message = "none"
    /\ ran = {}
    /\ random_seed = NoSeed

NoEvents == [scope \in {"all", "pt", "ot", "st"} |-> [d \in days |-> 0]]

Init ==
    /\ staff_df \in Rosters
    /\ num_days = MonthDays
    /\ \E c \in Calendars : first_weekday = c[1] /\ is_saturday_special = c[2]
    /\ params \in RuleConfigs
    /\ requests_df \in RequestTables
    /\ event_units = NoEvents
    /\ Blank
    /\ run = 1
    /\ prev = Empty
    /\ pc = "resolve"

\* The resolver without the test for a staff id that is not in the staff
\* table: the lookup of such a row raises and the call ends there.
ResolveRaisesOnUnknownStaff ==
    /\ pc = "resolve"
    /\ IF \E k \in DOMAIN requests_df : requests_df[k].id \notin StaffIds
       THEN /\ pc' = "done"
            /\ UNCHANGED <<requests_map, unit_multiplier_map>>
       ELSE /\ requests_map' = ResolveRequests(requests_df).roles
            /\ unit_multiplier_map' = ResolveRequests(requests_df).mult
            /\ pc' = "solve"
    /\ UNCHANGED <<inputs, status, shifts_values, solver_values, before_move, log_messages, i,
                   moves, last_improved, ret_ok, schedule_df, summary_df,
                   last_week_holidays, penalty_details, message, ran, random_seed, run, prev>>

\* Building requests_map and unit_multiplier_map from the request table
Resolve ==
    /\ pc = "resolve"
    /\ requests_map' = ResolveRequests(requests_df).roles
    /\ unit_multiplier_map' = ResolveRequests(requests_df).mult
    /\ pc' = "solve"
    /\ UNCHANGED <<inputs, status, shifts_values, solver_values, before_move, log_messages, i,
                   moves, last_improved, ret_ok, schedule_df, summary_df,
                   last_week_holidays, penalty_details, message, ran, random_seed, run, prev>>

\* What solver.Solve can hand back: a status, and with a solution the values
\* of the shift variables.  Which solution it is depends on the search (its
\* random seed, its workers, the 60 s limit): any assignment that satisfies
\* the hard constraints.  UNKNOWN is the limit reached without a solution.
SolverOutcomes ==
    {[status |-> "FEASIBLE", values |-> x] : x \in {y \in Assignments : Feasible(y)}}
      \cup {[status |-> "UNKNOWN", values |-> Empty]}
      \cup (IF \E x \in Assignments : Feasible(x) THEN {}
            ELSE {[status |-> "INFEASIBLE", values |-> Empty]})

\* random.randint(0, 2**30) draws from 0 .. 2**30; the model draws from
\* 0 .. MaxSeed.
MaxSeed == 1

\* The status test written as "anything but INFEASIBLE"
SolverSucceededUnlessInfeasible(st) == st # "INFEASIBLE"

\* status == cp_model.OPTIMAL or status == cp_model.FEASIBLE
SolverSucceeded(st) == st \in {"OPTIMAL", "FEASIBLE"}

\* The constraint model is built and solved; on OPTIMAL or FEASIBLE the
\* assignment is extracted, otherwise the fatal result is returned.
Solve ==
    /\ pc = "solve"
    /\ random_seed' \in 0 .. MaxSeed
    /\ \E o \in SolverOutcomes :
         /\ status' = o.status
         /\ IF SolverSucceeded(o.status)
            THEN /\ shifts_values' = o.values
                 /\ solver_values' = o.values
                 /\ pc' = "improve"
                 /\ UNCHANGED <<ret_ok, schedule_df, summary_df, last_week_holidays,
                                penalty_details, message>>
            ELSE /\ ret_ok' = FALSE
                 /\ schedule_df' = Empty
                 /\ summary_df' = Empty
                 /\ last_week_holidays' = Empty
                 /\ penalty_details' = <<>>
                 /\ message' = "fatal"
                 /\ pc' = "done"
                 /\ UNCHANGED <<shifts_values, solver_values>>
    /\ UNCHANGED <<inputs, requests_map, unit_multiplier_map, before_move, log_messages, i,
                   moves, last_improved, ran, run, prev>>

\* The pass with the break test inverted: the loop is left after a pass
\* that committed a move and goes on after a pass that committed none.
ImprovePassBreakOnCommit ==
    /\ pc = "improve"
    /\ LET r == improve_pass(shifts_values)
       IN  /\ shifts_values' = r.x
           /\ before_move' = IF r.found THEN shifts_values ELSE before_move
           /\ log_messages' = IF r.found
                              THEN Append(log_messages, LogEntry(shifts_values, r.x))
                              ELSE log_messages
           /\ moves' = IF r.found THEN moves + 1 ELSE moves
           /\ last_improved' = r.found
           /\ i' = i + 1
           /\ pc' = IF ~ r.found /\ i + 1 < max_iterations THEN "improve" ELSE "report"
    /\ ran' = ran \cup {"improver"}
    /\ UNCHANGED <<inputs, requests_map, unit_multiplier_map, status, solver_values,
                   ret_ok, schedule_df, summary_df, last_week_holidays,
                   penalty_details, message, random_seed, run, prev>>

\* The pass of a loop without the iteration cap (while True)
ImprovePassUncapped ==
    /\ pc = "improve"
    /\ LET r == improve_pass(shifts_values)
       IN  /\ shifts_values' = r.x
           /\ before_move' = IF r.found THEN shifts_values ELSE before_move
           /\ log_messages' = IF r.found
                              THEN Append(log_messages, LogEntry(shifts_values, r.x))
                              ELSE log_messages
           /\ moves' = IF r.found THEN moves + 1 ELSE moves
           /\ last_improved' = r.found
           /\ i' = i + 1
           /\ pc' = IF r.found THEN "improve" ELSE "report"
    /\ ran' = ran \cup {"improver"}
    /\ UNCHANGED <<inputs, requests_map, unit_multiplier_map, status, solver_values,
                   ret_ok, schedule_df, summary_df, last_week_holidays,
                   penalty_details, message, random_seed, run, prev>>

\* One pass of the outer loop of improve_schedule_with_local_search
ImprovePass ==
    /\ pc = "improve"
    /\ LET r == improve_pass(shifts_values)
       IN  /\ shifts_values' = r.x
           /\ before_move' = IF r.found THEN shifts_values ELSE before_move
           /\ log_messages' = IF r.found
                              THEN Append(log_messages, LogEntry(shifts_values, r.x))
                              ELSE log_messages
           /\ moves' = IF r.found THEN moves + 1 ELSE moves
           /\ last_improved' = r.found
           /\ i' = i + 1
           /\ pc' = IF r.found /\ i + 1 < max_iterations THEN "improve" ELSE "report"
    /\ ran' = ran \cup {"improver"}
    /\ UNCHANGED <<inputs, requests_map, unit_multiplier_map, status, solver_values,
                   ret_ok, schedule_df, summary_df, last_week_holidays,
                   penalty_details, message, random_seed, run, prev>>

\* The reporter handed the assignment extracted from the solver, as in the
\* evaluation that precedes the improver
ReportBeforeImprover ==
    /\ pc = "report"
    /\ penalty_details' = report_penalty_details(solver_values)
    /\ ran' = ran \cup {"reporter"}
    /\ pc' = "assemble"
    /\ UNCHANGED <<inputs, requests_map, unit_multiplier_map, status, shifts_values,
                   solver_values, before_move, log_messages, i, moves, last_improved, ret_ok,
                   schedule_df, summary_df, last_week_holidays, message, random_seed, run, prev>>

\* The violation list of the final assignment
Report ==
    /\ pc = "report"
    /\ penalty_details' = report_penalty_details(shifts_values)
    /\ ran' = ran \cup {"reporter"}
    /\ pc' = "assemble"
    /\ UNCHANGED <<inputs, requests_map, unit_multiplier_map, status, shifts_values,
                   solver_values, before_move, log_messages, i, moves, last_improved, ret_ok,
                   schedule_df, summary_df, last_week_holidays, message, random_seed, run, prev>>

\* The schedule grid, the summary, the last-week tally, the successful return
Assemble ==
    /\ pc = "assemble"
    /\ schedule_df' = create_schedule_df(shifts_values)
    /\ summary_df' = create_summary(create_schedule_df(shifts_values))
    /\ last_week_holidays' = create_last_week_holidays(shifts_values)
    /\ message' = "ok"
    /\ ret_ok' = TRUE
    /\ ran' = ran \cup {"assembler"}
    /\ pc' = "done"
    /\ UNCHANGED <<inputs, requests_map, unit_multiplier_map, status, shifts_values,
                   solver_values, before_move, log_messages, i, moves, last_improved,
                   penalty_details, random_seed, run, prev>>

Next == Resolve \/ Solve \/ ImprovePass \/ Report \/ Assemble

Spec == Init /\ [][Next]_vars

(***************************************************************************)
(* The whole call made twice on the same inputs: a two-day month that      *)
(* starts on a Monday, two physiotherapists who each carry one holiday     *)
(* from the last week of the previous month, no requests.                  *)
(***************************************************************************)
TwoRunDays == 2

TwoRunRoster ==
    <<[Member("s1", "PT", FALSE, FALSE, "none") EXCEPT !.prev2 = 2],
      [Member("s2", "PT", FALSE, FALSE, "none") EXCEPT !.prev2 = 2]>>

InitTwoRuns ==
    /\ staff_df = TwoRunRoster
    /\ num_days = TwoRunDays
    /\ first_weekday = 0
    /\ is_saturday_special = FALSE
    /\ params \in RuleConfigs
    /\ requests_df = <<>>
    /\ event_units = NoEvents
    /\ Blank
    /\ run = 1
    /\ prev = Empty
    /\ pc = "resolve"

\* solve_shift_model has returned and is called again on the same inputs.
Rerun ==
    /\ pc = "done"
    /\ run = 1
    /\ prev' = [ret_ok |-> ret_ok, schedule_df |-> schedule_df,
                solver_values |-> solver_values, status |-> status,
                random_seed |-> random_seed]
    /\ run' = 2
    /\ requests_map' = Empty
    /\ unit_multiplier_map' = Empty
    /\ status' = "none"
    /\ shifts_values' = Empty
    /\ solver_values' = Empty
    /\ before_move' = Empty
    /\ log_messages' = <<>>
    /\ i' = 0
    /\ moves' = 0
    /\ last_improved' = FALSE
    /\ ret_ok' = FALSE
    /\ schedule_df' = Empty
    /\ summary_df' = Empty
    /\ last_week_holidays' = Empty
    /\ penalty_details' = <<>>
    /\ message' = "none"
    /\ ran' = {}
    /\ random_seed' = NoSeed
    /\ pc' = "resolve"
    /\ UNCHANGED inputs

NextTwoRuns == Resolve \/ Solve \/ ImprovePass \/ Report \/ Assemble \/ Rerun

SpecTwoRuns == InitTwoRuns /\ [][NextTwoRuns]_vars

(***************************************************************************)
(* The improver alone, called on an extracted assignment and then called   *)
(* again on its own result.  A four-week month that starts on a Sunday,    *)
(* physiotherapists who all work Monday to Wednesday of every week and     *)
(* have no requests: leveling a week takes half as many moves again as     *)
(* there are staff, so that CapStaff staff need more than max_iterations   *)
(* moves and two staff need twelve.                                        *)
(***************************************************************************)
CapStaff == 18
CapDays == 28

BigRoster(K) == [k \in 1 .. K |-> Member(ToString(k), "PT", FALSE, FALSE, "none")]

FrontLoaded ==
    [s \in StaffIds |-> [d \in days |-> IF weekday(d) \in {0, 1, 2} THEN 1 ELSE 0]]

InitImprover ==
    /\ \E K \in {2, CapStaff} : staff_df = BigRoster(K)
    /\ num_days = CapDays
    /\ first_weekday = 6
    /\ is_saturday_special = FALSE
    /\ params = [AllOn EXCEPT !.s5_on = FALSE]
    /\ requests_df = <<>>
    /\ event_units = NoEvents
    /\ requests_map = ResolveRequests(requests_df).roles
    /\ unit_multiplier_map = ResolveRequests(requests_df).mult
    /\ status = "FEASIBLE"
    /\ shifts_values = FrontLoaded
    /\ Feasible(shifts_values)
    /\ solver_values = shifts_values
    /\ before_move = Empty
    /\ log_messages = <<>>
    /\ i = 0
    /\ moves = 0
    /\ last_improved = FALSE
    /\ ret_ok = FALSE
    /\ schedule_df = Empty
    /\ summary_df = Empty
    /\ last_week_holidays = Empty
    /\ penalty_details = <<>>
    /\ message = "none"
    /\ ran = {}
    /\ random_seed = 0
    /\ run = 1
    /\ prev = Empty
    /\ pc = "improve"

\* improve_schedule_with_local_search is called a second time, on the
\* assignment the first call left, with the same parameters.
ImproveAgain ==
    /\ pc = "report"
    /\ run = 1
    /\ prev' = [values |-> shifts_values, i |-> i, moves |-> moves]
    /\ run' = 2
    /\ i' = 0
    /\ moves' = 0
    /\ last_improved' = FALSE
    /\ before_move' = Empty
    /\ log_messages' = <<>>
    /\ pc' = "improve"
    /\ UNCHANGED <<inputs, requests_map, unit_multiplier_map, status, shifts_values,
                   solver_values, ret_ok, schedule_df, summary_df, last_week_holidays,
                   penalty_details, message, ran, random_seed>>

NextImprover == ImprovePass \/ ImproveAgain

SpecImprover == InitImprover /\ [][NextImprover]_vars

(***************************************************************************)
(* The whole call for a roster of one regular physiotherapist without a    *)
(* managerial title and without a role tag.  The month starts on a         *)
(* Thursday: its first week is days 1 to 3 (Thursday to Saturday) and      *)
(* continues the last week of the previous month, its second week is a     *)
(* full week from Sunday to Saturday.  The staff carries no holiday or     *)
(* half a holiday from the previous month.                                 *)
(***************************************************************************)
SingleDays == 10

SingleRosters ==
    {<<[Member("s1", "PT", FALSE, FALSE, "none") EXCEPT !.prev2 = c]>> : c \in {0, 1}}

SingleRequestTables == {<<>>, <<Row("s1", 1, "X"), Row("s1", 5, "TRI")>>}

InitSingle ==
    /\ staff_df \in SingleRosters
    /\ num_days = SingleDays
    /\ first_weekday = 3
    /\ is_saturday_special = FALSE
    /\ params \in RuleConfigs
    /\ requests_df \in SingleRequestTables
    /\ event_units = NoEvents
    /\ Blank
    /\ run = 1
    /\ prev = Empty
    /\ pc = "resolve"

SpecSingle == InitSingle /\ [][Next]_vars

(***************************************************************************)
(* The whole call on inputs where the improver has moves to weigh.         *)
(*                                                                         *)
(* Title roster: two regular physiotherapists with a managerial title, of  *)
(* whom the first carries half a holiday from the previous month, and a    *)
(* part-time physiotherapist without requests, over MonthDays days.        *)
(*                                                                         *)
(* Week roster: one regular physiotherapist and a part-time                *)
(* physiotherapist q whose requests fix every cell: q works every day but  *)
(* the last two, or every day but the first two.  The month starts on a    *)
(* Sunday: days 1 to 7 are a full week, day 8 is the Sunday of the next.   *)
(***************************************************************************)
MoveDays == 8

TitleRoster ==
    <<[Member("a", "PT", FALSE, TRUE, "none") EXCEPT !.prev2 = 1],
      Member("b", "PT", FALSE, TRUE, "none"),
      Member("p", "PT", TRUE, FALSE, "none")>>

TitleRequestTables ==
    {<<>>,
     <<Row("a", 2, "TRI"), Row("b", 2, "X"), Row("b", 1, "MARU")>>,
     <<Row("a", 1, "AMK")>>}

WeekRoster ==
    <<Member("a", "PT", FALSE, FALSE, "none"),
      Member("q", "PT", TRUE, FALSE, "none")>>

WeekRequestTables ==
    {[d \in 1 .. MoveDays |-> Row("q", d, IF d <= MoveDays - 2 THEN "MARU" ELSE "X")],
     [d \in 1 .. MoveDays |-> Row("q", d, IF d >= 3 THEN "MARU" ELSE "X")]}

InitMoves ==
    /\ \/ /\ staff_df = TitleRoster
          /\ num_days = MonthDays
          /\ first_weekday \in {0, 6}
          /\ is_saturday_special = FALSE
          /\ requests_df \in TitleRequestTables
       \/ /\ staff_df = WeekRoster
          /\ num_days = MoveDays
          /\ first_weekday = 6
          /\ is_saturday_special \in BOOLEAN
          /\ requests_df \in WeekRequestTables
    /\ params = [AllOn EXCEPT !.s5_on = FALSE]
    /\ event_units = NoEvents
    /\ Blank
    /\ run = 1
    /\ prev = Empty
    /\ pc = "resolve"

SpecMoves == InitMoves /\ [][Next]_vars

(***************************************************************************)
(* The calendar of the call: every month length up to CalendarDays and     *)
(* every weekday of day 1, for a roster of one regular physiotherapist;    *)
(* the call is followed as far as the building of the constraint model.    *)
(***************************************************************************)
CalendarDays == 31

InitCalendar ==
    /\ staff_df = <<Member("s1", "PT", FALSE, FALSE, "none")>>
    /\ num_days \in 1 .. CalendarDays
    /\ first_weekday \in 0 .. 6
    /\ is_saturday_special \in BOOLEAN
    /\ params = AllOn
    /\ requests_df = <<>>
    /\ event_units = NoEvents
    /\ Blank
    /\ run = 1
    /\ prev = Empty
    /\ pc = "resolve"

SpecCalendar == InitCalendar /\ [][Resolve]_vars

(***************************************************************************)
(* The whole call for one regular physiotherapist with weekend caps: each  *)
(* of the three caps is absent or set (the Sunday cap and the Saturday cap *)
(* to 0, the cap on both to 1).  The month starts on a Friday, so that     *)
(* day 2 is a Saturday and day 3 a Sunday.                                 *)
(***************************************************************************)
CapsDays == 4

CapsRosters ==
    {<<[Member("s1", "PT", FALSE, FALSE, "none")
          EXCEPT !.weekend_cap = w, !.sunday_cap = u, !.saturday_cap = a]>> :
       w \in {NoCap, 1}, u \in {NoCap, 0}, a \in {NoCap, 0}}

InitCaps ==
    /\ staff_df \in CapsRosters
    /\ num_days = CapsDays
    /\ first_weekday = 4
    /\ is_saturday_special \in BOOLEAN
    /\ params = [AllOn EXCEPT !.s5_on = FALSE]
    /\ requests_df = <<>>
    /\ event_units = NoEvents
    /\ Blank
    /\ run = 1
    /\ prev = Empty
    /\ pc = "resolve"

SpecCaps == InitCaps /\ [][Next]_vars

(***************************************************************************)
(* The whole call for one regular physiotherapist and event units: the     *)
(* table of every profession and the table of its own profession carry,    *)
(* on the Sunday (day 3 of a month that starts on a Friday), no units or   *)
(* 30, and the table of every profession carries on day 1 no units or 10.  *)
(***************************************************************************)
EventDays == 4

EventTables ==
    {[scope \in {"all", "pt", "ot", "st"} |->
        [d \in 1 .. EventDays |->
           IF scope = "all" /\ d = 3 THEN a
           ELSE IF scope = "pt" /\ d = 3 THEN p
           ELSE IF scope = "all" /\ d = 1 THEN w
           ELSE 0]] : a \in {0, 30}, p \in {0, 30}, w \in {0, 10}}

InitEvents ==
    /\ staff_df = <<Member("s1", "PT", FALSE, FALSE, "none")>>
    /\ num_days = EventDays
    /\ first_weekday = 4
    /\ is_saturday_special \in BOOLEAN
    /\ params = [AllOn EXCEPT !.s5_on = FALSE]
    /\ requests_df = <<>>
    /\ event_units \in EventTables
    /\ Blank
    /\ run = 1
    /\ prev = Empty
    /\ pc = "resolve"

SpecEvents == InitEvents /\ [][Next]_vars

(***************************************************************************)
(* The whole call for one regular physiotherapist over LastWeekDays days   *)
(* that start on any weekday, without requests or with a morning-off       *)
(* request on the last day and a weak-holiday request on the day before.   *)
(***************************************************************************)
LastWeekDays == 8

LastWeekRequestTables ==
    {<<>>, <<Row("s1", LastWeekDays, "AMK"), Row("s1", LastWeekDays - 1, "TRI")>>}

InitLastWeek ==
    /\ staff_df = <<Member("s1", "PT", FALSE, FALSE, "none")>>
    /\ num_days = LastWeekDays
    /\ first_weekday \in 0 .. 6
    /\ is_saturday_special = FALSE
    /\ params = [AllOn EXCEPT !.s5_on = FALSE]
    /\ requests_df \in LastWeekRequestTables
    /\ event_units = NoEvents
    /\ Blank
    /\ run = 1
    /\ prev = Empty
    /\ pc = "resolve"

SpecLastWeek == InitLastWeek /\ [][Next]_vars

(***************************************************************************)
(* The improver alone on a month long enough for the move cost to weigh    *)
(* as it does in a calendar month: LevelDays days from a Sunday on, twelve *)
(* weekdays, three regular physiotherapists who each work, in each of the  *)
(* two weeks, on Monday and Tuesday or on Monday to Wednesday.             *)
(* The first of them has a weak-holiday request on both Thursdays; the     *)
(* cost of a weak-holiday move is the default or 0.                        *)
(***************************************************************************)
LevelDays == 14

LevelRoster ==
    <<Member("s1", "PT", FALSE, FALSE, "none"),
      Member("s2", "PT", FALSE, FALSE, "none"),
      Member("s3", "PT", FALSE, FALSE, "none")>>

LevelRequestTables == {<<Row("s1", 5, "TRI"), Row("s1", 12, "TRI")>>}

\* The move cost of a weak-holiday request left at 0.5 or entered as 0
LevelConfigs ==
    {[AllOn EXCEPT !.s5_on = FALSE],
     [tri_penalty_weight |-> 0] @@ [AllOn EXCEPT !.s5_on = FALSE]}

LevelPatterns == {{0, 1}, {0, 1, 2}}

InitLevel ==
    /\ staff_df = LevelRoster
    /\ num_days = LevelDays
    /\ first_weekday = 6
    /\ is_saturday_special = FALSE
    /\ params \in LevelConfigs
    /\ requests_df \in LevelRequestTables
    /\ event_units = NoEvents
    /\ requests_map = ResolveRequests(requests_df).roles
    /\ unit_multiplier_map = ResolveRequests(requests_df).mult
    /\ status = "FEASIBLE"
    /\ \E f \in [StaffIds \X {0, 1} -> LevelPatterns] :
         shifts_values =
           [s \in StaffIds |->
              [d \in days |->
                 IF weekday(d) \in f[<<s, ((d - 1) \div 7) % 2>>] THEN 1 ELSE 0]]
    /\ Feasible(shifts_values)
    /\ solver_values = shifts_values
    /\ before_move = Empty
    /\ log_messages = <<>>
    /\ i = 0
    /\ moves = 0
    /\ last_improved = FALSE
    /\ ret_ok = FALSE
    /\ schedule_df = Empty
    /\ summary_df = Empty
    /\ last_week_holidays = Empty
    /\ penalty_details = <<>>
    /\ message = "none"
    /\ ran = {}
    /\ random_seed = 0
    /\ run = 1
    /\ prev = Empty
    /\ pc = "improve"

SpecLevel == InitLevel /\ [][ImprovePass]_vars

(***************************************************************************)
(* The improver called twice on the same extracted assignment with the     *)
(* same parameters, the second time in another random state of the         *)
(* process.                                                                *)
(***************************************************************************)
ImproveSame ==
    /\ pc = "report"
    /\ run = 1
    /\ prev' = [values |-> shifts_values, i |-> i, moves |-> moves,
                log_messages |-> log_messages, random_seed |-> random_seed]
    /\ run' = 2
    /\ shifts_values' = solver_values
    /\ random_seed' \in 0 .. MaxSeed
    /\ i' = 0
    /\ moves' = 0
    /\ last_improved' = FALSE
    /\ before_move' = Empty
    /\ log_messages' = <<>>
    /\ pc' = "improve"
    /\ UNCHANGED <<inputs, requests_map, unit_multiplier_map, status, solver_values,
                   ret_ok, schedule_df, summary_df, last_week_holidays,
                   penalty_details, message, ran>>

NextRepeat == Resolve \/ Solve \/ ImprovePass \/ ImproveSame

SpecRepeat == InitMoves /\ [][NextRepeat]_vars

(***************************************************************************)
(* Properties                                                              *)
(***************************************************************************)
\* A solution was extracted: the improver, the reporter or the assembler is
\* next, or the call returned its successful result.
Solved == pc \in {"improve", "report", "assemble"} \/ (pc = "done" /\ ret_ok)

StrictHoliday(role) ==
    role # NoRole /\ symbol_settings[role].is_holiday /\ symbol_settings[role].strict
StrictWork(role) ==
    role # NoRole /\ ~ symbol_settings[role].is_holiday /\ symbol_settings[role].strict

PartTimersKeepStrictRequests ==
    \A s \in part_time_staff_ids : \A d \in days :
      /\ StrictHoliday(requests_map[s][d]) => shifts_values[s][d] = 0
      /\ StrictWork(requests_map[s][d]) => shifts_values[s][d] = 1

\* C1 as stated: whatever the rule switches are, in every extracted
\* assignment and after every pass of the improver, a part-time staff is
\* off on each day of a strict holiday request and works on each day of a
\* strict work request.
C1_AnySwitches == Solved => PartTimersKeepStrictRequests

\* C1: when rule H2 is switched on, in every extracted assignment and after
\* every pass of the improver, a part-time staff is off on each day of a
\* strict holiday request and works on each day of a strict work request.
C1_PartTimeFixUnderH2 == (Solved /\ params.h2_on) => PartTimersKeepStrictRequests

\* A part-time staff has a strict holiday request, H2 is on, the improver
\* committed a move and the call returned.
C1_Witness ==
    /\ pc = "done" /\ ret_ok /\ params.h2_on /\ moves >= 1
    /\ \E s \in part_time_staff_ids : \E d \in days : StrictHoliday(requests_map[s][d])

EveryDayHasKaifukuki ==
    \A d \in days :
      Worked(shifts_values, kaifukuki_pt, d) + Worked(shifts_values, kaifukuki_ot, d) >= 1

\* C2 as stated: in every extracted assignment and after every committed
\* move, each day has a recovery-ward PT or a recovery-ward OT at work.
C2_AnySwitches == Solved => EveryDayHasKaifukuki

\* C2: when rule S5 is switched on, in every extracted assignment and
\* after every committed move of the improver, each day has at least one
\* recovery-ward PT or recovery-ward OT at work.
C2_CoverUnderS5 == (Solved /\ params.s5_on) => EveryDayHasKaifukuki

\* S5 is on, the improver committed a move and the call returned.
C2_Witness == pc = "done" /\ ret_ok /\ params.s5_on /\ moves >= 1

\* C3: when the solver's status is neither OPTIMAL nor FEASIBLE the call
\* has returned the failure flag, the fatal message, an empty schedule, an
\* empty summary and an empty violation list, and neither the improver nor
\* the reporter nor the assembler was executed.
C3_FailureReturnsEmpty ==
    status \in {"INFEASIBLE", "UNKNOWN"} =>
      /\ pc = "done"
      /\ ret_ok = FALSE
      /\ message = "fatal"
      /\ schedule_df = Empty
      /\ summary_df = Empty
      /\ penalty_details = <<>>
      /\ ran = {}
      /\ i = 0 /\ moves = 0

\* The solver ended without a solution and the call returned.
C3_Witness == pc = "done" /\ status = "UNKNOWN" /\ ~ ret_ok

\* The cells the last committed move switched from off to work
MovedTo == {c \in StaffIds \X days : before_move[c[1]][c[2]] = 0 /\ shifts_values[c[1]][c[2]] = 1}

\* sqrt(vnew)/n + cost < sqrt(vold)/n for the variance terms vnew and vold
\* (n*n times the variances) and twice the cost cost2, in integers.
StdLowerByCost(vnew, vold, n, cost2) ==
    /\ vnew < vold
    /\ cost2 > 0 =>
          /\ 4 * vnew + 4 * vold > cost2 * cost2 * n * n
          /\ (4 * vnew + 4 * vold - cost2 * cost2 * n * n)
               * (4 * vnew + 4 * vold - cost2 * cost2 * n * n) > 64 * vnew * vold

\* The last committed move lowered the secondary score by more than its
\* cost: no profession's deviation rose, and the deviation of the moved
\* staff's profession fell by more than the cost of the move (0.5 when the
\* destination day carries a weak-holiday request, else 0).
LastMoveLowersScore ==
    LET old == calculate_internal_penalty_score(before_move)
        new == calculate_internal_penalty_score(shifts_values)
    IN  /\ \A k \in DOMAIN Jobs : new[k] <= old[k]
        /\ \E k \in DOMAIN Jobs : new[k] < old[k]
        /\ \A c \in MovedTo : \A k \in DOMAIN Jobs :
             staff_info(c[1]).job = Jobs[k] =>
               StdLowerByCost(new[k], old[k], Cardinality(weekdays),
                              IF requests_map[c[1]][c[2]] = "HOLIDAY_WEAK"
                              THEN tri_penalty_weight ELSE 0)

\* C4: after every committed move the secondary score is strictly lower
\* than before that move, by more than the cost of the move, and during
\* and after the improver it is never above its value for the assignment
\* extracted from the solver.
C4_ImproverMonotone ==
    (Solved /\ moves >= 1) =>
      /\ LastMoveLowersScore
      /\ \A k \in DOMAIN Jobs :
           calculate_internal_penalty_score(shifts_values)[k]
             <= calculate_internal_penalty_score(solver_values)[k]

\* The improver moved a staff onto a day of a weak-holiday request and so
\* paid the move cost; the improver has finished.
C4_Witness ==
    /\ pc = "report" /\ moves >= 1
    /\ \E c \in MovedTo : requests_map[c[1]][c[2]] = "HOLIDAY_WEAK"

\* C5 as stated: a second call of the improver on the result of a first call
\* commits no move and leaves the assignment unchanged, also when the first
\* call ended by reaching the cap of max_iterations passes.
C5_AfterAnyFirstRun ==
    run = 2 => (moves = 0 /\ shifts_values = prev.values)

\* C5: when the first call of the improver ended before the cap of
\* max_iterations passes, a second call on its result with the same
\* parameters commits no move and leaves the assignment unchanged.
C5_IdempotentBelowCap ==
    (run = 2 /\ prev.i < max_iterations) =>
      (moves = 0 /\ shifts_values = prev.values)

\* The first call committed moves and ended below the cap, and the second
\* call has finished.
C5_Witness ==
    run = 2 /\ pc = "report" /\ prev.moves >= 1 /\ prev.i < max_iterations

ImproverCounters ==
    /\ i <= max_iterations
    /\ moves <= i
    /\ pc = "improve" => (moves = i /\ i < max_iterations)
    /\ pc = "report" =>
         /\ i >= 1
         /\ \/ ~ last_improved /\ moves = i - 1
            \/ last_improved /\ moves = i /\ i = max_iterations

\* C6: the improver terminates: every pass raises the pass count by one
\* and commits at most one move, the count never exceeds max_iterations, the
\* loop goes on only while every pass so far committed a move, and it ends
\* at the first pass that commits none or at the cap.
C6_ImproverTerminates ==
    /\ [] ImproverCounters
    /\ [][pc = "improve" =>
            /\ i' = i + 1
            /\ moves' \in {moves, moves + 1}
            /\ (moves' = moves => pc' = "report")]_vars

\* The improver ended at the cap: max_iterations passes, a move in each.
C6_Witness == pc = "report" /\ i = max_iterations /\ moves = max_iterations

Returned == pc = "done" /\ ret_ok

\* C7 as stated: a worked cell shows the WORK_FROM_WEAK symbol for every
\* requested role that is a holiday and not strict.
C7_WeakByBehaviour ==
    Returned =>
      \A s \in StaffIds : \A d \in days :
        LET role == requests_map[s][d]
        IN  schedule_df[s][d] =
              IF shifts_values[s][d] = 0
              THEN IF role # NoRole THEN symbol_settings[role].out
                   ELSE symbol_settings["HOLIDAY_DEFAULT"].out
              ELSE IF role = NoRole THEN symbol_settings["WORK_DEFAULT"].out
                   ELSE IF symbol_settings[role].is_holiday /\ ~ symbol_settings[role].strict
                        THEN symbol_settings["WORK_FROM_WEAK"].out
                        ELSE symbol_settings[role].out

\* C7: the symbol of a cell of the returned grid.  Off: the output symbol
\* of the requested role, the HOLIDAY_DEFAULT symbol without a request.
\* Worked: the WORK_FROM_WEAK symbol when the requested role is the role
\* HOLIDAY_WEAK, the own output symbol of any other requested role (a half
\* holiday included, although it is a holiday and not strict), the
\* WORK_DEFAULT symbol without a request.
C7_OutputSymbols ==
    Returned =>
      \A s \in StaffIds : \A d \in days :
        LET role == requests_map[s][d]
        IN  schedule_df[s][d] =
              IF shifts_values[s][d] = 0
              THEN IF role # NoRole THEN symbol_settings[role].out
                   ELSE symbol_settings["HOLIDAY_DEFAULT"].out
              ELSE IF role = NoRole THEN symbol_settings["WORK_DEFAULT"].out
                   ELSE IF role = "HOLIDAY_WEAK"
                        THEN symbol_settings["WORK_FROM_WEAK"].out
                        ELSE symbol_settings[role].out

\* A staff works on a day of its HOLIDAY_WEAK request in the returned grid.
C7_Witness ==
    /\ Returned
    /\ \E s \in StaffIds : \E d \in days :
         requests_map[s][d] = "HOLIDAY_WEAK" /\ shifts_values[s][d] = 1

IgnoredRow(row) == row.id \notin StaffIds \/ symbol_to_role_map(row.sym) = NoRole

RowsWithoutIgnored == SelectSeq(requests_df, LAMBDA row : ~ IgnoredRow(row))

\* C9: the role map and the coefficient map are those of the request table
\* without its cells of unmapped symbols and its rows of unknown staff, and
\* the maps, the assignment and the grid have exactly the staff of the staff
\* table.
C9_IgnoredRequestsNoEffect ==
    pc # "resolve" =>
      /\ requests_map = ResolveRequests(RowsWithoutIgnored).roles
      /\ unit_multiplier_map = ResolveRequests(RowsWithoutIgnored).mult
      /\ DOMAIN requests_map = StaffIds
      /\ DOMAIN unit_multiplier_map = StaffIds
      /\ Solved => DOMAIN shifts_values = StaffIds
      /\ Returned => DOMAIN schedule_df = StaffIds

\* The request table has a row of an unknown staff, a cell of an unmapped
\* symbol and a row that counts, and the call returned.
C9_Witness ==
    /\ Returned
    /\ \E k \in DOMAIN requests_df : requests_df[k].id \notin StaffIds
    /\ \E k \in DOMAIN requests_df :
         requests_df[k].id \in StaffIds /\ symbol_to_role_map(requests_df[k].sym) = NoRole
    /\ \E k \in DOMAIN requests_df : ~ IgnoredRow(requests_df[k])

HasIgnoredRow == \E k \in DOMAIN requests_df : IgnoredRow(requests_df[k])

\* C10 as stated: a returned call whose request table has an ignored cell or
\* row carries a WARN note in its violation list.
C10_IgnoredRequestsWarned ==
    (Returned /\ HasIgnoredRow) =>
      \E k \in DOMAIN penalty_details : penalty_details[k].rule = "WARN"

\* C10: an ignored request is dropped without a note: the call goes on to
\* the solver, and the returned violation list is the reporter's list for
\* the final assignment, with no WARN record in it.
C10_IgnoredRequestsSilent ==
    HasIgnoredRow =>
      /\ pc = "done" => status # "none"
      /\ Returned =>
           /\ penalty_details = report_penalty_details(shifts_values)
           /\ \A k \in DOMAIN penalty_details : penalty_details[k].rule # "WARN"

\* The request table has an ignored row and the call returned with a
\* violation list that is not empty.
C10_Witness == Returned /\ HasIgnoredRow /\ penalty_details # <<>>

\* The rule a violation record belongs to
RuleOfRecord(rec) ==
    CASE rec.rule \in {"S0_cross_month", "S0_full_week"} -> "S0"
      [] rec.rule \in {"S5_PT", "S5_OT"} -> "S5"
      [] OTHER -> rec.rule

RecordedRules == {RuleOfRecord(penalty_details[k]) : k \in DOMAIN penalty_details}

\* C11 as stated: the returned violation list has a record of a rule
\* exactly when the rule is switched on and its deviation on the final
\* assignment is not zero, for each of H1, H2, H3, the weekend caps, the
\* weekly rest, S1, S3, S4, S5, S6 and S7.
C11_ReporterComplete ==
    Returned =>
      \A rule \in DOMAIN penalties(shifts_values) :
        (rule \in RecordedRules) <=> (penalties(shifts_values)[rule] # 0)

RecordsOf(rule) == SelectSeq(penalty_details, LAMBDA rec : rec.rule = rule)

NoRequestsScenario == requests_df = <<>>

\* C12 as stated: a single regular staff without title and role tag, no
\* requests, no caps and every rule switched on with the default weights:
\* the solve succeeds with exactly 9 off days, one manager-presence record
\* per day and no S1, S6 or S7 penalty.
C12_SingleStaffSolves ==
    (NoRequestsScenario /\ params = AllOn /\ pc = "done" /\ status # "UNKNOWN") =>
      /\ ret_ok
      /\ \A s \in StaffIds : OffDays(shifts_values, s, days) = 9
      /\ \A d \in days : Len(SelectSeq(RecordsOf("H3"), LAMBDA rec : rec.day = d)) = 1
      /\ penalties(shifts_values).S1 = 0
      /\ penalties(shifts_values).S6 = 0
      /\ penalties(shifts_values).S7 = 0

\* C12: a single regular staff without title and role tag and without
\* requests.  With every rule switched on the solve never succeeds: rule S5
\* demands a recovery-ward staff at work on each day and the roster has
\* none, so the call returns the fatal result.  With S5 switched off every
\* returned result has exactly one manager-presence record per day, no
\* recovery-ward record, an H1 record exactly when the staff's off days
\* are not 9, and a penalty of S1 (on the Sunday, against the targets) and
\* of S6 (on every weekday) that is not zero.
C12_SingleStaffNeedsS5Off ==
    NoRequestsScenario =>
      /\ (params.s5_on /\ pc \notin {"resolve", "solve"}) =>
           /\ pc = "done"
           /\ status \in {"INFEASIBLE", "UNKNOWN"}
           /\ ~ ret_ok
           /\ message = "fatal"
      /\ Returned =>
           /\ ~ params.s5_on
           /\ \A d \in days :
                Len(SelectSeq(RecordsOf("H3"), LAMBDA rec : rec.day = d)) = 1
           /\ Len(RecordsOf("H3")) = num_days
           /\ RecordsOf("S5_PT") = <<>> /\ RecordsOf("S5_OT") = <<>>
           /\ \A s \in StaffIds :
                (RecordsOf("H1") # <<>>) <=> (OffDays(shifts_values, s, days) # 9)
           /\ penalties(shifts_values).S1 > 0
           /\ penalties(shifts_values).S6 > 0

\* Every rule is on, the roster is the single staff without requests, and
\* the call returned the fatal result of an infeasible model.
C12_Witness ==
    /\ NoRequestsScenario /\ params = AllOn /\ Len(staff_df) = 1
    /\ pc = "done" /\ status = "INFEASIBLE" /\ ~ ret_ok

FewFullRequests(s, w) ==
    Cardinality({d \in WeekSet(weeks_in_month[w]) :
        requests_map[s][d] # NoRole
        /\ symbol_settings[requests_map[s][d]].is_holiday
        /\ symbol_settings[requests_map[s][d]].coef = 0}) < 3

\* 2 * (off days of the week) + (worked days of a half-holiday request),
\* plus twice the carried holidays (prev2 is twice the carried count)
CarriedValue(s) ==
    2 * Cardinality({d \in WeekSet(weeks_in_month[1]) : shifts_values[s][d] = 0})
      + Cardinality({d \in WeekSet(weeks_in_month[1]) :
            /\ shifts_values[s][d] = 1
            /\ requests_map[s][d] # NoRole
            /\ symbol_settings[requests_map[s][d]].is_holiday
            /\ symbol_settings[requests_map[s][d]].coef > 0})
      + staff_info(s).prev2

\* C13 as stated: in a first week that continues the previous month the
\* value with the carried holidays is compared with 3 when the week has 7
\* days and with 1 when it is shorter, and the penalty is w_S0 (7 days) or
\* w_S2 (shorter) when the value is below.
C13_ThresholdByLength ==
    (Solved /\ is_cross_month_week /\ (params.s0_on \/ params.s2_on)) =>
      \A s \in StaffIds \ part_time_staff_ids :
        FewFullRequests(s, 1) =>
          WeeklyRestTerm(shifts_values, s, 1) =
            IF Len(weeks_in_month[1]) = 7
            THEN (IF params.s0_on /\ CarriedValue(s) < 3 THEN params.s0_penalty ELSE 0)
            ELSE (IF params.s2_on /\ CarriedValue(s) < 1 THEN params.s2_penalty ELSE 0)

\* C13: in a first week that continues the previous month (such a week is
\* always shorter than 7 days) the value with the carried holidays is
\* compared with 3, whatever the length of the week, and the penalty is
\* w_S0 when the value is below 3, when S0 or S2 is switched on; the
\* reporter's cross-month record follows the same test.  With carried
\* holidays of 0.5 (value 1) one off day in the week gives 3 and no penalty,
\* and no off day gives 1 and the penalty.
C13_CrossMonthThresholdThree ==
    (Solved /\ is_cross_month_week /\ (params.s0_on \/ params.s2_on)) =>
      /\ Len(weeks_in_month[1]) < 7
      /\ \A s \in StaffIds \ part_time_staff_ids :
           FewFullRequests(s, 1) =>
             /\ WeeklyRestTerm(shifts_values, s, 1) =
                  IF CarriedValue(s) < 3 THEN params.s0_penalty ELSE 0
             /\ Returned =>
                  ((\E k \in DOMAIN penalty_details :
                       penalty_details[k].rule = "S0_cross_month"
                       /\ penalty_details[k].staff = s)
                   <=> CarriedValue(s) < 3)
             /\ (staff_info(s).prev2 = 1
                 /\ OffDays(shifts_values, s, WeekSet(weeks_in_month[1])) >= 1)
                  => WeeklyRestTerm(shifts_values, s, 1) = 0
             /\ (staff_info(s).prev2 = 1
                 /\ OffDays(shifts_values, s, WeekSet(weeks_in_month[1])) = 0
                 /\ \A d \in WeekSet(weeks_in_month[1]) : requests_map[s][d] = NoRole)
                  => WeeklyRestTerm(shifts_values, s, 1) = params.s0_penalty

\* A three-day first week that continues the previous month, a regular
\* staff with carried holidays of 0.5 and exactly one off day in that week,
\* and the call returned.
C13_Witness ==
    /\ Returned /\ is_cross_month_week /\ params.s0_on
    /\ Len(weeks_in_month[1]) = 3
    /\ \E s \in StaffIds \ part_time_staff_ids :
         /\ staff_info(s).prev2 = 1
         /\ OffDays(shifts_values, s, WeekSet(weeks_in_month[1])) = 1

\* C14: on a successful solve the solver's assignment is the one the
\* improver starts from; the violation list, the schedule grid and the
\* daily summary that are returned are those of the assignment as the
\* improver left it; and no step after the improver changes the assignment.
C14_PipelineOrder ==
    /\ [](Returned =>
            /\ penalty_details = report_penalty_details(shifts_values)
            /\ schedule_df = create_schedule_df(shifts_values)
            /\ summary_df = create_summary(create_schedule_df(shifts_values)))
    /\ [][pc = "solve" /\ pc' = "improve" => (shifts_values' = solver_values')]_vars
    /\ [][(pc = "report" \/ pc = "assemble") => shifts_values' = shifts_values]_vars
    /\ [][pc = "improve" /\ pc' = "report" =>
            /\ shifts_values' = improve_pass(shifts_values).x
            /\ (moves' >= 1 => before_move' # shifts_values')]_vars

\* A call returned after the improver committed a move, and the violation
\* list, the grid and the summary of the solver's assignment all differ
\* from the returned ones.
C14_Witness ==
    /\ Returned /\ moves >= 1
    /\ penalty_details # report_penalty_details(solver_values)
    /\ schedule_df # create_schedule_df(solver_values)
    /\ summary_df # create_summary(create_schedule_df(solver_values))

\* The cells the last committed move changed, and those it switched from
\* work to off
LastMoveCells ==
    {c \in StaffIds \X days : before_move[c[1]][c[2]] # shifts_values[c[1]][c[2]]}
MovedFrom ==
    {c \in StaffIds \X days : before_move[c[1]][c[2]] = 1 /\ shifts_values[c[1]][c[2]] = 0}

\* C15: the improver never changes a cell of a part-time staff: every
\* committed move is on a regular staff, and during and after the improver
\* the row of every part-time staff is the one extracted from the solver.
C15_PartTimersNeverMoved ==
    Solved =>
      /\ \A s \in part_time_staff_ids : shifts_values[s] = solver_values[s]
      /\ moves >= 1 => \A c \in LastMoveCells : ~ staff_info(c[1]).part_time

\* The improver has finished and left a part-time staff without requests
\* on max_day of a week and off on min_day of that week, where at least
\* two fewer of the profession work: the candidate that is never moved.
C15_Witness ==
    /\ pc = "report"
    /\ \E s \in part_time_staff_ids : \E w \in DOMAIN weeks_in_month :
         /\ Len(week_weekdays(w)) >= 2
         /\ LET d1 == max_day_of(shifts_values, StaffIds, week_weekdays(w))
                d2 == min_day_of(shifts_values, StaffIds, week_weekdays(w))
            IN  /\ shifts_values[s][d1] = 1 /\ shifts_values[s][d2] = 0
                /\ requests_map[s][d1] = NoRole /\ requests_map[s][d2] = NoRole
                /\ Worked(shifts_values, StaffIds, d1)
                     >= Worked(shifts_values, StaffIds, d2) + 2

\* The cells where a strict request is not honoured: work on a strict
\* holiday, off on a strict work request
StrictRequestBroken(x) ==
    {c \in StaffIds \X days :
       \/ StrictHoliday(requests_map[c[1]][c[2]]) /\ x[c[1]][c[2]] = 1
       \/ StrictWork(requests_map[c[1]][c[2]]) /\ x[c[1]][c[2]] = 0}

\* C16: every committed move puts the staff to work on a day with no
\* request or a weak-holiday request and takes it off a day without a
\* strict work request; so during and after the improver no cell breaks a
\* strict request that the solver's assignment honoured, and the strict-
\* leave (H2) deviation and records are at most those of the solver's
\* assignment.
C16_MovesRespectRequests ==
    Solved =>
      /\ moves >= 1 =>
           /\ \A c \in MovedTo : requests_map[c[1]][c[2]] \in {NoRole, "HOLIDAY_WEAK"}
           /\ \A c \in MovedFrom : ~ StrictWork(requests_map[c[1]][c[2]])
           /\ StrictRequestBroken(shifts_values) \subseteq StrictRequestBroken(before_move)
      /\ StrictRequestBroken(shifts_values) \subseteq StrictRequestBroken(solver_values)
      /\ H2Terms(shifts_values) <= H2Terms(solver_values)
      /\ SeqToSet(ReportH2(shifts_values)) \subseteq SeqToSet(ReportH2(solver_values))

\* The improver has finished after a move onto a day of a weak-holiday
\* request, while another staff of the profession has a strict holiday
\* request on that day and is off, and a strict work request on the day
\* the move left and works.
C16_Witness ==
    /\ pc = "report" /\ moves >= 1
    /\ \E c \in MovedTo : \E e \in MovedFrom : \E s \in StaffIds :
         /\ requests_map[c[1]][c[2]] = "HOLIDAY_WEAK"
         /\ StrictHoliday(requests_map[s][c[2]]) /\ shifts_values[s][c[2]] = 0
         /\ StrictWork(requests_map[s][e[2]]) /\ shifts_values[s][e[2]] = 1

\* C17: after a committed move of a staff with a managerial title a
\* manager is still assigned on the day the move left; and every day that
\* had a manager in the solver's assignment has one during and after the
\* improver.
C17_ManagerRemains ==
    Solved =>
      /\ moves >= 1 =>
           \A c \in MovedFrom :
             staff_info(c[1]).manager => Worked(shifts_values, managers, c[2]) >= 1
      /\ \A d \in days :
           Worked(solver_values, managers, d) >= 1 => Worked(shifts_values, managers, d) >= 1

\* The last committed move took a manager off a day on which exactly one
\* other manager stays.
C17_Witness ==
    /\ Solved /\ moves >= 1
    /\ \E c \in MovedFrom :
         /\ staff_info(c[1]).manager
         /\ Worked(before_move, managers, c[2]) = 2
         /\ Worked(shifts_values, managers, c[2]) = 1

\* The weekly-rest value of staff s in week w of assignment x: twice the
\* off days, plus the worked days of a half-holiday request, plus twice
\* the carried holidays in a first week that continues the previous month
RestValue(x, s, w) ==
    2 * Cardinality({d \in WeekSet(weeks_in_month[w]) : x[s][d] = 0})
      + Cardinality({d \in WeekSet(weeks_in_month[w]) :
            x[s][d] = 1 /\ requests_map[s][d] \in half_holiday_roles})
      + (IF w = 1 /\ is_cross_month_week THEN staff_info(s).prev2 ELSE 0)

\* C18: after a committed move, in every week that holds one of the two
\* days of the move the weekly-rest value of the moved staff, with the
\* carried holidays in a first week that continues the previous month, is
\* at least 3 when the week has 7 days and at least 1 when it is shorter.
C18_WeeklyRestKept ==
    (Solved /\ moves >= 1) =>
      \A c \in LastMoveCells : \A w \in DOMAIN weeks_in_month :
        c[2] \in WeekSet(weeks_in_month[w]) =>
          RestValue(shifts_values, c[1], w)
            >= (IF Len(weeks_in_month[w]) = 7 THEN 3 ELSE 1)

\* The last committed move was inside a week of 7 days and left the moved
\* staff two off days in it, and the staff works on the other five.
C18_Witness ==
    /\ Solved /\ moves >= 1
    /\ \E c \in MovedTo : \E w \in DOMAIN weeks_in_month :
         /\ c[2] \in WeekSet(weeks_in_month[w])
         /\ Len(weeks_in_month[w]) = 7
         /\ RestValue(shifts_values, c[1], w) = 4

\* Staff s works on six consecutive days somewhere in the month
HasSixRun(x, s) ==
    \E d \in 1 .. num_days :
      /\ d + 5 <= num_days
      /\ \A n \in 0 .. 5 : x[s][d + n] = 1

WorkDays(x, s, ds) == Cardinality({d \in ds : x[s][d] = 1})

\* The last committed move changed exactly two cells, of one staff: a
\* weekday from work to off and another weekday of the same week from off
\* to work.
LastMoveIsOneSwap ==
    \E s \in StaffIds : \E w \in DOMAIN weeks_in_month :
      \E d_max, d_min \in SeqToSet(week_weekdays(w)) :
        /\ d_max # d_min
        /\ before_move[s][d_max] = 1 /\ shifts_values[s][d_max] = 0
        /\ before_move[s][d_min] = 0 /\ shifts_values[s][d_min] = 1
        /\ LastMoveCells = {<<s, d_max>>, <<s, d_min>>}

\* What the improver leaves as the solver set it: every Sunday and
\* special-Saturday cell, and per staff the working days of the month, of
\* each week, and the sums the weekend caps bound.
ImproverPreserves ==
    \A s \in StaffIds :
      /\ \A d \in sundays \cup special_saturdays :
           shifts_values[s][d] = solver_values[s][d]
      /\ WorkDays(shifts_values, s, days) = WorkDays(solver_values, s, days)
      /\ \A w \in DOMAIN weeks_in_month :
           WorkDays(shifts_values, s, WeekSet(weeks_in_month[w]))
             = WorkDays(solver_values, s, WeekSet(weeks_in_month[w]))
      /\ WorkDays(shifts_values, s, sundays) = WorkDays(solver_values, s, sundays)
      /\ WorkDays(shifts_values, s, special_saturdays)
           = WorkDays(solver_values, s, special_saturdays)
      /\ WorkDays(shifts_values, s, sundays \cup special_saturdays)
           = WorkDays(solver_values, s, sundays \cup special_saturdays)

\* C20: a pass of the improver that commits no move leaves the assignment
\* as it was; a committed move changes exactly two cells of one staff,
\* (s, d_max) from 1 to 0 and (s, d_min) from 0 to 1, with d_max and d_min
\* weekdays of the same week; so every Sunday and special-Saturday cell and
\* each staff's working days per month and per week and weekend-cap sums
\* are those of the solver's assignment.
C20_MoveFrame ==
    /\ []((Solved /\ moves >= 1) => LastMoveIsOneSwap)
    /\ [](Solved => ImproverPreserves)
    /\ [][(pc = "improve" /\ moves' = moves) => shifts_values' = shifts_values]_vars
    /\ [][(pc = "improve" /\ moves' # moves) => before_move' = shifts_values]_vars

\* The improver has finished after a move in a month with a Sunday and a
\* special Saturday on which the moved staff works.
C20_Witness ==
    /\ pc = "report" /\ moves >= 1
    /\ \E c \in MovedTo :
         /\ \E d \in sundays : shifts_values[c[1]][d] = 1
         /\ \E d \in special_saturdays : shifts_values[c[1]][d] = 1

\* The position of member m of profession k in week w in the order of the
\* three loops of a pass
LoopPosition(w, k, m) == ((w - 1) * Len(Jobs) + (k - 1)) * (Len(staff) + 1) + m

\* The members the loops of a pass would move in assignment x: week w and
\* profession k have two weekdays and a gap of two or more between max_day
\* and min_day, and member m passes the test of the member loop.
PassCandidates(x) ==
    {t \in (DOMAIN weeks_in_month) \X (DOMAIN Jobs) \X (DOMAIN staff) :
       LET wds     == week_weekdays(t[1])
           members == job_types(Jobs[t[2]])
           mset    == SeqToSet(members)
       IN  /\ Len(wds) >= 2
           /\ t[3] \in DOMAIN members
           /\ Worked(x, mset, max_day_of(x, mset, wds))
                >= Worked(x, mset, min_day_of(x, mset, wds)) + 2
           /\ MoveCommits(x, members[t[3]], max_day_of(x, mset, wds),
                          min_day_of(x, mset, wds), t[2],
                          calculate_internal_penalty_score(x))}

\* The last committed move is the move of the first candidate in week,
\* profession, member order.
LastMoveIsFirstCandidate ==
    \E t \in PassCandidates(before_move) :
      /\ \A u \in PassCandidates(before_move) :
           LoopPosition(t[1], t[2], t[3]) <= LoopPosition(u[1], u[2], u[3])
      /\ LET wds  == week_weekdays(t[1])
             mset == SeqToSet(job_types(Jobs[t[2]]))
         IN  shifts_values =
               Swap(before_move, job_types(Jobs[t[2]])[t[3]],
                    max_day_of(before_move, mset, wds),
                    min_day_of(before_move, mset, wds))

Admitted(s, d, v) == \E x \in Assignments : Feasible(x) /\ x[s][d] = v

C23_WeekPartition ==
    LET W == weeks_in_month
    IN  /\ Len(W) >= 1
        /\ \A k \in DOMAIN W :
             /\ Len(W[k]) \in 1 .. 7
             /\ \A j \in 1 .. (Len(W[k]) - 1) : W[k][j + 1] = W[k][j] + 1
             /\ weekday(W[k][Len(W[k])]) = 5 \/ W[k][Len(W[k])] = num_days
             /\ \A j \in 1 .. (Len(W[k]) - 1) : weekday(W[k][j]) # 5
             /\ (1 < k /\ k < Len(W)) => Len(W[k]) = 7
        /\ W[1][1] = 1
        /\ W[Len(W)][Len(W[Len(W)])] = num_days
        /\ \A k \in 1 .. (Len(W) - 1) : W[k + 1][1] = W[k][Len(W[k])] + 1
        /\ \A d \in days :
             Cardinality({k \in DOMAIN W : d \in SeqToSet(W[k])}) = 1

\* A month of six weeks: the first has one day, the last fewer than 7, and
\* the call has built its request maps.
C23_Witness ==
    /\ pc = "solve"
    /\ Len(weeks_in_month) = 6
    /\ Len(weeks_in_month[1]) = 1
    /\ Len(weeks_in_month[6]) < 7

\* calendar weekday of day 0, the last day of the previous month
\* (0 = Monday .. 5 = Saturday, 6 = Sunday)
DayZeroWeekday == (first_weekday + 6) % 7

\* C24 as stated: the first week continues the previous month exactly
\* when day 0 is not a Sunday.
C24_DayZeroNotSunday == is_cross_month_week <=> DayZeroWeekday # 6

\* C24: the first week continues the previous month exactly when day 0 is
\* not a Saturday, that is when day 1 is not a Sunday, the day that opens a
\* week; in a month of 7 days or more that is when the first week has
\* fewer than 7 days.
C24_DayZeroNotSaturday ==
    /\ is_cross_month_week <=> DayZeroWeekday # 5
    /\ is_cross_month_week <=> 1 \notin sundays
    /\ num_days >= 7 => (is_cross_month_week <=> Len(weeks_in_month[1]) < 7)

\* Day 0 is a Sunday, day 1 a Monday: the first week continues the
\* previous month, and the call has built its request maps.
C24_Witness ==
    /\ pc = "solve" /\ DayZeroWeekday = 6 /\ weekday(1) = 0
    /\ is_cross_month_week /\ num_days >= 7 /\ Len(weeks_in_month[1]) = 6

\* C25: in a returned result with rule H1 on, a regular staff has an H1
\* record exactly when its monthly holiday value in the objective,
\* 2 * (off days - requested paid, special and summer leave) + requested
\* half holidays, differs from 18, that is exactly when its H1 term in the
\* objective is not zero.
C25_ReporterH1AgreesWithP1 ==
    (Returned /\ params.h1_on) =>
      \A s \in StaffIds \ part_time_staff_ids :
        (Rec("H1", s, 0) \in SeqToSet(penalty_details))
          <=> (H1Value(shifts_values, s) # 18)

\* The cap penalty of a staff as C26 gives it: with the cap on Sundays and
\* special Saturdays together set, that cap alone; else the Sunday cap and
\* the Saturday cap, each once when present; all with the weight of H5.
ClaimedCapTerm(x, s) ==
    IF s \in part_time_staff_ids THEN 0
    ELSE IF staff_info(s).weekend_cap # NoCap
    THEN params.h5_penalty * Max0(WeekendWorked(x, s) - staff_info(s).weekend_cap)
    ELSE (IF staff_info(s).sunday_cap # NoCap
          THEN params.h5_penalty * Max0(SundaysWorked(x, s) - staff_info(s).sunday_cap)
          ELSE 0)
         + (IF staff_info(s).saturday_cap # NoCap
            THEN params.h5_penalty
                   * Max0(SaturdaysWorked(x, s) - staff_info(s).saturday_cap)
            ELSE 0)

\* C26: with rule H5 on, the cap penalties of the objective for an
\* extracted assignment are, per regular staff, the penalty of the cap on
\* Sundays and special Saturdays together when that cap is set, with no
\* penalty from the Sunday cap and the Saturday cap, and else the penalty
\* of the Sunday cap and that of the Saturday cap, each once.
C26_WeekendCapPrecedence ==
    (Solved /\ params.h5_on) =>
      H5Terms(shifts_values) + WeekendCapTerms(shifts_values)
        = SumSeq([k \in DOMAIN staff |-> ClaimedCapTerm(shifts_values, staff[k])])

\* The total of a table of event units over the days that are not Sundays
EventTotalOffSundays(scope) ==
    SumSeq([d \in days |-> IF d \in sundays THEN 0 ELSE event_units[scope][d]])

\* The rounded target average of a profession when the entries of the
\* Sundays count for nothing
AvgResidualOffSundays(job) ==
    LET n == Cardinality(weekdays)
    IN  IF AllUnitsN > 0
        THEN Round(TotalUnitsN(job) * AllUnitsN
                     - EventTotalOffSundays(EventScope(job)) * n * AllUnitsN
                     - EventTotalOffSundays("all") * TotalUnitsN(job) * n,
                   n * n * AllUnitsN)
        ELSE Round(TotalUnitsN(job) - EventTotalOffSundays(EventScope(job)) * n, n * n)

\* C27: the event units entered on Sundays are ignored: with rule S6 on,
\* the rounded target average of every profession with members is the one
\* obtained with the entries of the Sundays set to zero, so that the
\* deviations of the weekdays and the objective do not depend on them.
C27_SundayEventsIgnored ==
    (Solved /\ params.s6_on /\ weekdays # {}) =>
      \A k \in DOMAIN Jobs :
        job_types(Jobs[k]) # <<>> =>
          RoundedAvgResidual(Jobs[k]) = AvgResidualOffSundays(Jobs[k])

\* The last element of the week partition, as a set of days
LastWeekOfPartition == SeqToSet(weeks_in_month[Len(weeks_in_month)])

\* What one day of the final week adds to the tally, times 10: a day off
\* 10, a worked day with a half-holiday request 10 less its coefficient,
\* any other worked day nothing
HalfHolidayTally(s, d) ==
    IF shifts_values[s][d] = 0 THEN 10
    ELSE IF requests_map[s][d] \in half_holiday_roles_h1
         THEN 10 - symbol_settings[requests_map[s][d]].coef
         ELSE 0

\* C28: in a returned schedule the final week is the last element of the
\* week partition, and the tally of every staff is the sum over its days
\* of 1 for a day off, 1 less the coefficient for a worked day with a
\* half-holiday request and 0 for any other worked day.
C28_LastWeekTally ==
    (pc = "done" /\ ret_ok) =>
      /\ final_week_days = LastWeekOfPartition
      /\ \A s \in StaffIds :
           last_week_holidays[s]
             = SumSeq([n \in DOMAIN SortedDays(LastWeekOfPartition) |->
                         HalfHolidayTally(s, SortedDays(LastWeekOfPartition)[n])])

\* A returned schedule whose final week is a part of the month in which
\* the staff has a day off, a worked day with a half-holiday request and a
\* worked day without one
C28_Witness ==
    /\ pc = "done" /\ ret_ok
    /\ final_week_days # days
    /\ \E s \in StaffIds : \E d, e, f \in final_week_days :
         /\ shifts_values[s][d] = 0
         /\ shifts_values[s][e] = 1 /\ requests_map[s][e] = "HALF_AM"
         /\ shifts_values[s][f] = 1 /\ requests_map[s][f] = NoRole
         /\ last_week_holidays[s] > 10

\* The members of week w and profession k that the member loop of a pass
\* on assignment x would test with a move cost of 0 and find safe: the
\* week has two weekdays, max_day has two more at work than min_day, the
\* member works on max_day, is off on min_day without a request, has no
\* must-work request on max_day, and the tentative swap is valid.
ZeroCostSafe(x) ==
    {t \in (DOMAIN weeks_in_month) \X (DOMAIN Jobs) \X (DOMAIN staff) :
       LET wds     == week_weekdays(t[1])
           members == job_types(Jobs[t[2]])
           mset    == SeqToSet(members)
       IN  /\ Len(wds) >= 2
           /\ t[3] \in DOMAIN members
           /\ Worked(x, mset, max_day_of(x, mset, wds))
                >= Worked(x, mset, min_day_of(x, mset, wds)) + 2
           /\ x[members[t[3]]][max_day_of(x, mset, wds)] = 1
           /\ x[members[t[3]]][min_day_of(x, mset, wds)] = 0
           /\ requests_map[members[t[3]]][min_day_of(x, mset, wds)] = NoRole
           /\ SymbolOf(requests_map[members[t[3]]][max_day_of(x, mset, wds)])
                \notin must_work_symbols
           /\ is_move_valid(Swap(x, members[t[3]], max_day_of(x, mset, wds),
                                 min_day_of(x, mset, wds)),
                            members[t[3]], max_day_of(x, mset, wds),
                            min_day_of(x, mset, wds))}

\* The swap of such a member
ZeroCostSwap(x, t) ==
    LET wds  == week_weekdays(t[1])
        mset == SeqToSet(job_types(Jobs[t[2]]))
    IN  Swap(x, job_types(Jobs[t[2]])[t[3]],
             max_day_of(x, mset, wds), min_day_of(x, mset, wds))

\* The swap of every member tested with a move cost of 0 and found safe
\* lowers the term of its profession in the secondary score, leaves the
\* other terms as they are and passes the commit test.
ZeroCostSafeLowersScore ==
    pc = "improve" =>
      \A t \in ZeroCostSafe(shifts_values) :
        LET best == calculate_internal_penalty_score(shifts_values)
            new  == calculate_internal_penalty_score(ZeroCostSwap(shifts_values, t))
        IN  /\ new[t[2]] < best[t[2]]
            /\ \A k \in DOMAIN Jobs : k # t[2] => new[k] = best[k]
            /\ t \in PassCandidates(shifts_values)

\* The last committed move is the swap of the first member, in week,
\* profession, staff-list order, that was tested with a move cost of 0 and
\* found safe.
LastMoveIsFirstZeroCostSafe ==
    \E t \in ZeroCostSafe(before_move) :
      /\ \A u \in ZeroCostSafe(before_move) :
           LoopPosition(t[1], t[2], t[3]) <= LoopPosition(u[1], u[2], u[3])
      /\ shifts_values = ZeroCostSwap(before_move, t)

\* After the last committed move the day that had the most at work still
\* has at least as many as the day that had the fewest, which has gained
\* one: count(max_day) - 1 >= count(min_day) + 1 in the counts before.
LastMoveDoesNotInvert ==
    \E t \in PassCandidates(before_move) :
      LET wds  == week_weekdays(t[1])
          mset == SeqToSet(job_types(Jobs[t[2]]))
          hi   == max_day_of(before_move, mset, wds)
          lo   == min_day_of(before_move, mset, wds)
      IN  /\ shifts_values = Swap(before_move, job_types(Jobs[t[2]])[t[3]], hi, lo)
          /\ Worked(before_move, mset, hi) - 1 >= Worked(before_move, mset, lo) + 1
          /\ Worked(shifts_values, mset, hi) >= Worked(shifts_values, mset, lo)

\* C29 as stated: the swap of a member tested with a move cost of 0 and
\* found safe lowers the secondary score and passes the commit test; the
\* move a pass has committed is the swap of the first such member in week,
\* profession, staff-list order; and the move does not invert the two days.
C29_CommitIsFirstZeroCostSafe ==
    /\ ZeroCostSafeLowersScore
    /\ (Solved /\ moves >= 1) =>
         (LastMoveIsFirstZeroCostSafe /\ LastMoveDoesNotInvert)

\* C29, amended: the swap of a member tested with a move cost of 0 and
\* found safe lowers the secondary score and passes the commit test; the
\* move a pass has committed is the swap of the first member in week,
\* profession, staff-list order that passes the whole test of the member
\* loop, a member with a weak-holiday request on min_day included; it is
\* the first member tested with a move cost of 0 and found safe whenever
\* the cost of a weak-holiday move is at least the square root of 2 over
\* the number of weekdays; and the move does not invert the two days.
C29_ZeroCostSafeCommits ==
    /\ ZeroCostSafeLowersScore
    /\ (Solved /\ moves >= 1) =>
         /\ LastMoveIsFirstCandidate
         /\ LastMoveDoesNotInvert
         /\ (tri_weight * tri_weight * Cardinality(weekdays) >= 8
               => LastMoveIsFirstZeroCostSafe)

\* A pass has committed the move of a member that stands, in the staff
\* list, behind a member whose swap of the same two days was valid and
\* had a weak-holiday request on min_day
C29_Witness ==
    /\ Solved /\ moves >= 1
    /\ \E t \in ZeroCostSafe(before_move) :
         /\ shifts_values = ZeroCostSwap(before_move, t)
         /\ LET wds     == week_weekdays(t[1])
                members == job_types(Jobs[t[2]])
                mset    == SeqToSet(members)
                hi      == max_day_of(before_move, mset, wds)
                lo      == min_day_of(before_move, mset, wds)
            IN  \E m \in 1 .. (t[3] - 1) :
                  /\ before_move[members[m]][hi] = 1
                  /\ before_move[members[m]][lo] = 0
                  /\ SymbolOf(requests_map[members[m]][lo]) = "TRI"
                  /\ is_move_valid(Swap(before_move, members[m], hi, lo),
                                   members[m], hi, lo)

NoKaifukukiStaff == kaifukuki_pt \cup kaifukuki_ot = {}

\* C30: with rule S5 on and a roster without recovery-ward PT and OT, no
\* day of any assignment has a recovery-ward staff at work, so the
\* constraint model has no solution; every solve ends in a status other
\* than OPTIMAL and FEASIBLE and the call returns the fatal result without
\* an assignment, with or without requests and carried holidays.
C30_NoRecoveryWardStaffIsFatal ==
    (params.s5_on /\ NoKaifukukiStaff) =>
      /\ pc = "solve" =>
           /\ \A x \in Assignments : \A d \in days :
                Worked(x, kaifukuki_pt, d) + Worked(x, kaifukuki_ot, d) = 0
           /\ ~ \E x \in Assignments : Feasible(x)
      /\ pc \notin {"resolve", "solve"} =>
           /\ pc = "done"
           /\ ~ SolverSucceeded(status)
           /\ ~ ret_ok /\ message = "fatal"
           /\ shifts_values = Empty /\ schedule_df = Empty
           /\ ran \cap {"improver", "reporter", "assembler"} = {}

\* The call with requests and a carried holiday, rule S5 on and no
\* recovery-ward staff has returned the fatal result
C30_Witness ==
    /\ params.s5_on /\ NoKaifukukiStaff
    /\ requests_df # <<>>
    /\ \E k \in DOMAIN staff_df : staff_df[k].prev2 > 0
    /\ pc = "done" /\ status = "INFEASIBLE" /\ message = "fatal"

====
